---- MODULE Spec2Model ----
(***************************************************************************)
(* Model of the animation scheduling core of anima.js: Animation,          *)
(* Parallel (a set of parallel animations) and Item (TransformState plus   *)
(* the queue of units), with the two playback algorithms of Item:          *)
(* free-running animation(tick) and random-access seek(tick).              *)
(*                                                                         *)
(* Numbers.  Time is counted in units of 100 ms.  Every value of the       *)
(* TransformState is a fixed-point number with Unit steps per 1.0, so the  *)
(* default scale 1 is Unit and a translate delta of 100 is 100 * Unit.     *)
(* Unit is divisible by every duration the model uses, so that the linear  *)
(* interpolation initial + delta * (tick - start) / duration is exact.     *)
(* Only the linear easing (easings.linear, the default) is modelled.       *)
(***************************************************************************)
EXTENDS Integers, Sequences, FiniteSets, TLC

VARIABLES
  state,       \* Item.state: translate, rotate, scale, opacity
  animations,  \* Item.animations: the queue of units
  infinite,    \* Item.infinite
  running,     \* Item.running
  now,         \* the host clock: the tick of a frame at this instant
  built,       \* history: every unit as animate() constructed it, in order
  last,        \* history: the last call made on the Item and what it did
  hist,        \* history: what free-running playback has done so far
  hung,        \* TRUE when a call entered a loop that never exits
  origin,      \* Date.now() minus the frame tick of the same instant
  track,       \* history: the playthrough of the head and its pauses
  items,       \* World.items / Timeline.items: the registered Items
  world,       \* the World: its frame request and what its Items received
  timeline,    \* the Timeline: currentTime, start, running, _changed
  seen,        \* history: the calls made on the World or Timeline
  calc,        \* the argument and the result of the last Matrix call
  heap,        \* which array each registered Item's state fields refer to
  handlers     \* EventEmitter.handlers of one emitter: its listeners by event

vars == <<state, animations, infinite, running, now, built, last, hist, hung,
          origin, track, items, world, timeline, seen, calc, heap, handlers>>

\* the state of the scheduler objects and their history
sched == <<items, world, timeline, seen, heap, handlers>>

----------------------------------------------------------------------------
(* Values *)

Unit == 2 * 2 * 3 * 5

\* null / undefined, and a present value v
Null == <<>>
Some(v) == <<v>>

\* Number(x) of JavaScript for x a number or null: null converts to 0
ToNumber(x) == IF x = Null THEN 0 ELSE x[1]

\* a || b of JavaScript on optional numbers: a unless it is undefined or 0
JsOr(a, b) == IF a # Null /\ a # Some(0) THEN a ELSE b

\* a value that is not a number, such as the string "abc"
NotNumeric == <<0, 0>>

\* parseInt(x, 10) on an optional whole number or a non-numeric value:
\* undefined and non-numeric values give NaN, which reads as undefined here
ParseInt(x) == IF x = Null \/ x = NotNumeric THEN Null ELSE x

DefaultDuration == 5

DefaultState ==
  [translate |-> <<0, 0, 0>>, rotate |-> <<0, 0, 0>>,
   scale |-> <<Unit, Unit, Unit>>, opacity |-> Unit]

----------------------------------------------------------------------------
(* Animation *)

\* new Animation(item, transform, duration, ease, delay)
NewAnimation(id, transform, duration, delay) ==
  [kind |-> "A", id |-> id,
   translate |-> transform.translate,
   rotate |-> transform.rotate,
   scale |-> transform.scale,
   opacity |-> transform.opacity,
   start |-> Null,
   diff |-> Null,
   duration |-> ToNumber(JsOr(ParseInt(JsOr(transform.duration, duration)),
                              Some(DefaultDuration))),
   delay |-> ToNumber(JsOr(ParseInt(JsOr(transform.delay, delay)), Some(0))),
   initial |-> Null]

\* a variant that initialises on every call
AnimationInitAlways(a, st, tick, force) ==
  [a EXCEPT !.start = Some(tick + a.delay), !.initial = Some(st)]

\* a variant that forgets the delay
AnimationInitNoDelay(a, st, tick, force) ==
  IF a.start # Null /\ ~force THEN a
  ELSE [a EXCEPT !.start = Some(tick), !.initial = Some(st)]

\* a variant that takes the snapshot only the first time
AnimationInitKeepsSnapshot(a, st, tick, force) ==
  IF a.start # Null /\ ~force THEN a
  ELSE [a EXCEPT !.start = Some(tick + a.delay),
                 !.initial = IF a.initial = Null THEN Some(st) ELSE a.initial]

\* Animation.prototype.init(tick, force)
AnimationInit(a, st, tick, force) ==
  IF a.start # Null /\ ~force THEN a
  ELSE [a EXCEPT !.start = Some(tick + a.delay), !.initial = Some(st)]

\* Animation.prototype.set reads this.initial[type] exactly when the
\* animation requests a vector with a non-zero component, or any opacity;
\* with initial undefined that read throws a TypeError.
Requests(a) ==
  \/ \E f \in {"translate", "rotate", "scale"} :
        a[f] # Null /\ \E i \in 1..3 : a[f][i] # 0
  \/ a.opacity # Null

TransformThrows(a) == a.initial = Null /\ Requests(a)

\* a variant that adds the delta to the current value
SetVectorOnCurrent(cur, ini, req, k, d) ==
  IF req = Null THEN cur
  ELSE [i \in 1..3 |->
          IF req[i] # 0 THEN cur[i] + ((req[i] * k) \div d) ELSE cur[i]]

\* Animation.prototype.set for a vector field, percent = k / d
SetVector(cur, ini, req, k, d) ==
  IF req = Null THEN cur
  ELSE [i \in 1..3 |->
          IF req[i] # 0 THEN ini[i] + ((req[i] * k) \div d) ELSE cur[i]]

\* a variant that treats the scalar as a delta, like the vectors
SetScalarAdditive(cur, ini, req, k, d) ==
  IF req = Null THEN cur
  ELSE ini + ((req[1] * k) \div d)

\* Animation.prototype.set for the scalar field
SetScalar(cur, ini, req, k, d) ==
  IF req = Null THEN cur
  ELSE ini + (((req[1] - ini) * k) \div d)

\* Animation.prototype.transform(percent), percent = k / d, initial defined
AnimationTransform(a, st, k, d) ==
  LET ini == a.initial[1] IN
  [translate |-> SetVector(st.translate, ini.translate, a.translate, k, d),
   rotate |-> SetVector(st.rotate, ini.rotate, a.rotate, k, d),
   scale |-> SetVector(st.scale, ini.scale, a.scale, k, d),
   opacity |-> SetScalar(st.opacity, ini.opacity, a.opacity, k, d)]

\* Animation.prototype.run(tick)
AnimationRun(a, st, tick) ==
  IF tick < ToNumber(a.start) THEN [u |-> a, st |-> st, err |-> FALSE]
  ELSE IF TransformThrows(a) THEN [u |-> a, st |-> st, err |-> TRUE]
  ELSE [u |-> a,
        st |-> AnimationTransform(a, st, tick - ToNumber(a.start), a.duration),
        err |-> FALSE]

\* Animation.prototype.end(abort)
AnimationEnd(a, st, abort) ==
  IF ~abort /\ TransformThrows(a) THEN [u |-> a, st |-> st, err |-> TRUE]
  ELSE [u |-> [a EXCEPT !.start = Null],
        st |-> IF abort THEN st ELSE AnimationTransform(a, st, 1, 1),
        err |-> FALSE]

\* Animation.prototype.pause, with Date.now() = t
AnimationPause(a, t) == [a EXCEPT !.diff = Some(t - ToNumber(a.start))]

\* a variant that starts the animation again at the time of the resume
AnimationResumeRestarts(a, t) == [a EXCEPT !.start = Some(t)]

\* Animation.prototype.resume, with Date.now() = t
AnimationResume(a, t) == [a EXCEPT !.start = Some(t - ToNumber(a.diff))]

----------------------------------------------------------------------------
(* Parallel *)

\* the Animation that Parallel's constructor builds for one entry of
\* `animations`: only translate, rotate and scale are handed over
NewChild(id, a, duration, delay) ==
  NewAnimation(id,
    [translate |-> a.translate, rotate |-> a.rotate, scale |-> a.scale,
     opacity |-> Null, duration |-> Null, delay |-> Null],
    JsOr(a.duration, duration), JsOr(a.delay, delay))

RECURSIVE MaxOf(_)
MaxOf(s) ==
  IF Len(s) = 1 THEN s[1]
  ELSE LET m == MaxOf(Tail(s)) IN IF s[1] >= m THEN s[1] ELSE m

\* a variant whose duration is that of the longest child, delays left out
NewParallelLongestChild(id, descrs, duration, delay) ==
  LET kids == [i \in 1..Len(descrs) |->
                 NewChild(10 * id + i, descrs[i], duration, delay)]
  IN [kind |-> "P", id |-> id,
      animations |-> kids,
      start |-> Null,
      delay |-> 0,
      duration |-> MaxOf([i \in 1..Len(kids) |-> kids[i].duration])]

\* new Parallel(item, animations, duration, ease, delay), animations non-empty
NewParallel(id, descrs, duration, delay) ==
  LET kids == [i \in 1..Len(descrs) |->
                 NewChild(10 * id + i, descrs[i], duration, delay)]
  IN [kind |-> "P", id |-> id,
      animations |-> kids,
      start |-> Null,
      delay |-> 0,
      duration |-> MaxOf([i \in 1..Len(kids) |->
                            kids[i].duration + kids[i].delay])]

\* Parallel.prototype.init(tick): takes no force argument
ParallelInit(p, st, tick, force) ==
  IF p.start # Null THEN p
  ELSE [p EXCEPT !.start = Some(tick),
                 !.animations = [i \in 1..Len(p.animations) |->
                    AnimationInit(p.animations[i], st, tick, FALSE)]]

\* the loop of Parallel.prototype.run: `todo` are the children not yet
\* visited, `kept` the visited ones that stay in this.animations
RECURSIVE RunChildren(_, _, _, _)
RunChildren(todo, kept, st, tick) ==
  IF todo = <<>> THEN [kids |-> kept, st |-> st, err |-> FALSE]
  ELSE LET a == Head(todo) IN
    IF ToNumber(a.start) + a.delay + a.duration <= tick
    THEN LET e == AnimationEnd(a, st, FALSE) IN
         IF e.err
         THEN [kids |-> kept \o Tail(todo), st |-> e.st, err |-> TRUE]
         ELSE RunChildren(Tail(todo), kept, e.st, tick)
    ELSE LET r == AnimationRun(a, st, tick) IN
         IF r.err
         THEN [kids |-> kept \o todo, st |-> r.st, err |-> TRUE]
         ELSE RunChildren(Tail(todo), Append(kept, r.u), r.st, tick)

\* Parallel.prototype.run(tick)
ParallelRun(p, st, tick) ==
  LET r == RunChildren(p.animations, <<>>, st, tick)
  IN [u |-> [p EXCEPT !.animations = r.kids], st |-> r.st, err |-> r.err]

\* the loop of Parallel.prototype.end
RECURSIVE EndChildren(_, _, _, _)
EndChildren(todo, done, st, abort) ==
  IF todo = <<>> THEN [kids |-> done, st |-> st, err |-> FALSE]
  ELSE LET e == AnimationEnd(Head(todo), st, abort) IN
    IF e.err THEN [kids |-> done \o todo, st |-> e.st, err |-> TRUE]
    ELSE EndChildren(Tail(todo), Append(done, e.u), e.st, abort)

\* Parallel.prototype.end(abort): the children stay in the set and
\* this.start keeps its value
ParallelEnd(p, st, abort) ==
  LET r == EndChildren(p.animations, <<>>, st, abort)
  IN [u |-> [p EXCEPT !.animations = r.kids], st |-> r.st, err |-> r.err]

\* Parallel.prototype.pause
ParallelPause(p, t) ==
  [p EXCEPT !.animations = [i \in 1..Len(p.animations) |->
                              AnimationPause(p.animations[i], t)]]

\* Parallel.prototype.resume
ParallelResume(p, t) ==
  [p EXCEPT !.animations = [i \in 1..Len(p.animations) |->
                              AnimationResume(p.animations[i], t)]]

----------------------------------------------------------------------------
(* The interface the queue uses: init / run / end / pause / resume *)

UnitInit(u, st, tick, force) ==
  IF u.kind = "A" THEN AnimationInit(u, st, tick, force)
  ELSE ParallelInit(u, st, tick, force)

UnitRun(u, st, tick) ==
  IF u.kind = "A" THEN AnimationRun(u, st, tick) ELSE ParallelRun(u, st, tick)

UnitEnd(u, st, abort) ==
  IF u.kind = "A" THEN AnimationEnd(u, st, abort) ELSE ParallelEnd(u, st, abort)

UnitPause(u, t) ==
  IF u.kind = "A" THEN AnimationPause(u, t) ELSE ParallelPause(u, t)

UnitResume(u, t) ==
  IF u.kind = "A" THEN AnimationResume(u, t) ELSE ParallelResume(u, t)

\* what a call did to the units of the queue, in order
Ev(what, u) == <<what, u.id>>

----------------------------------------------------------------------------
(* Item *)

\* Item.prototype.animate(transform, duration, ease, delay): the unit built;
\* input.array says whether Array.isArray(transform)
ItemAnimate(id, input) ==
  IF input.array
  THEN NewParallel(id, input.transform, input.duration, input.delay)
  ELSE NewAnimation(id, input.transform, input.duration, input.delay)

\* whether init(tick, force) on unit u takes effect (and emits 'start')
InitActs(u, force) ==
  IF u.kind = "A" THEN u.start = Null \/ force ELSE u.start = Null

\* the while loop of Item.prototype.animation(tick).  `fuel` counts the
\* iterations left before the call is known never to return: with infinite
\* set, a loop that has ended every unit twice within one call repeats.
RECURSIVE AnimationLoop(_, _, _, _, _, _)
AnimationLoop(anims, st, inf, tick, log, fuel) ==
  IF anims = <<>>
  THEN [animations |-> anims, state |-> st, log |-> log, err |-> FALSE,
        hung |-> FALSE]
  ELSE IF fuel = 0
  THEN [animations |-> anims, state |-> st, log |-> log, err |-> FALSE,
        hung |-> TRUE]
  ELSE
    LET first == UnitInit(Head(anims), st, tick, FALSE)
        log1 == IF InitActs(Head(anims), FALSE)
                THEN Append(log, Ev("init", first)) ELSE log
    IN IF ToNumber(first.start) + first.duration <= tick
       THEN LET e == UnitEnd(first, st, FALSE)
                rest == IF inf THEN Append(Tail(anims), e.u) ELSE Tail(anims)
            IN IF e.err
               THEN [animations |-> rest, state |-> e.st, log |-> log1,
                     err |-> TRUE, hung |-> FALSE]
               ELSE AnimationLoop(rest, e.st, inf, tick,
                                  Append(log1, Ev("end", first)), fuel - 1)
       ELSE LET r == UnitRun(first, st, tick)
            IN [animations |-> <<r.u>> \o Tail(anims), state |-> r.st,
                log |-> Append(log1, Ev("run", first)), err |-> r.err,
                hung |-> FALSE]

\* a variant that discards an ended head even when infinite is set
ItemAnimationDropsEnded(anims, st, run, inf, tick) ==
  IF ~run \/ anims = <<>>
  THEN [animations |-> anims, state |-> st, log |-> <<>>, err |-> FALSE,
        hung |-> FALSE]
  ELSE AnimationLoop(anims, st, FALSE, tick, <<>>, 2 * Len(anims) + 1)

\* a variant that also initialises and runs the unit behind the head
ItemAnimationRunsBehind(anims, st, run, inf, tick) ==
  IF ~run \/ anims = <<>>
  THEN [animations |-> anims, state |-> st, log |-> <<>>, err |-> FALSE,
        hung |-> FALSE]
  ELSE LET r == AnimationLoop(anims, st, inf, tick, <<>>, 2 * Len(anims) + 1)
       IN IF r.hung \/ r.err \/ Len(r.animations) < 2 THEN r
          ELSE LET b == UnitInit(r.animations[2], r.state, tick, FALSE)
                   q == UnitRun(b, r.state, tick)
               IN [animations |-> [r.animations EXCEPT ![2] = q.u],
                   state |-> q.st,
                   log |-> Append(r.log, Ev("run", b)),
                   err |-> q.err, hung |-> FALSE]

\* a variant that plays on while the Item is paused
ItemAnimationWhilePaused(anims, st, run, inf, tick) ==
  IF anims = <<>>
  THEN [animations |-> anims, state |-> st, log |-> <<>>, err |-> FALSE,
        hung |-> FALSE]
  ELSE AnimationLoop(anims, st, inf, tick, <<>>, 2 * Len(anims) + 1)

\* Item.prototype.animation(tick)
ItemAnimation(anims, st, run, inf, tick) ==
  IF ~run \/ anims = <<>>
  THEN [animations |-> anims, state |-> st, log |-> <<>>, err |-> FALSE,
        hung |-> FALSE]
  ELSE AnimationLoop(anims, st, inf, tick, <<>>, 2 * Len(anims) + 1)

\* Item.prototype.clear
ItemClear(st) ==
  [translate |-> <<0, 0, 0>>, rotate |-> <<0, 0, 0>>,
   scale |-> <<Unit, Unit, Unit>>, opacity |-> Unit]

\* a variant of the loop of seek that anchors every unit at offset 0
RECURSIVE SeekLoopNoOffset(_, _, _, _, _, _)
SeekLoopNoOffset(anims, st, tick, i, time, log) ==
  IF i > Len(anims)
  THEN [animations |-> anims, state |-> st, log |-> log, err |-> FALSE]
  ELSE
    LET a == UnitInit(anims[i], st, time, TRUE)
    IN IF ToNumber(a.start) + a.duration <= tick
       THEN LET e == UnitEnd(a, st, FALSE)
            IN IF e.err
               THEN [animations |-> [anims EXCEPT ![i] = e.u], state |-> e.st,
                     log |-> log, err |-> TRUE]
               ELSE SeekLoopNoOffset([anims EXCEPT ![i] = e.u], e.st, tick,
                                     i + 1, time, log)
       ELSE LET r == UnitRun(a, st, tick)
            IN [animations |-> [anims EXCEPT ![i] = r.u], state |-> r.st,
                log |-> log, err |-> r.err]

\* the for loop of Item.prototype.seek(tick), at index i with offset `time`
RECURSIVE SeekLoop(_, _, _, _, _, _)
SeekLoop(anims, st, tick, i, time, log) ==
  IF i > Len(anims)
  THEN [animations |-> anims, state |-> st, log |-> log, err |-> FALSE]
  ELSE
    LET a == UnitInit(anims[i], st, time, TRUE)
        log1 == IF InitActs(anims[i], TRUE)
                THEN Append(log, Ev("init", a)) ELSE log
    IN IF ToNumber(a.start) + a.duration <= tick
       THEN LET e == UnitEnd(a, st, FALSE)
            IN IF e.err
               THEN [animations |-> [anims EXCEPT ![i] = e.u], state |-> e.st,
                     log |-> log1, err |-> TRUE]
               ELSE SeekLoop([anims EXCEPT ![i] = e.u], e.st, tick, i + 1,
                             time + a.delay + a.duration,
                             Append(log1, Ev("end", a)))
       ELSE LET r == UnitRun(a, st, tick)
            IN [animations |-> [anims EXCEPT ![i] = r.u], state |-> r.st,
                log |-> Append(log1, Ev("run", a)), err |-> r.err]

\* Item.prototype.seek(tick)
ItemSeek(anims, st, tick) ==
  IF anims = <<>>
  THEN [animations |-> anims, state |-> st, log |-> <<>>, err |-> FALSE]
  ELSE SeekLoop(anims, ItemClear(st), tick, 1, 0, <<>>)

\* the for loop of Item.prototype.finish(abort), at index i
RECURSIVE FinishLoop(_, _, _, _, _)
FinishLoop(anims, st, abort, i, log) ==
  IF i > Len(anims)
  THEN [animations |-> anims, state |-> st, log |-> log, err |-> FALSE]
  ELSE LET e == UnitEnd(anims[i], st, abort)
       IN IF e.err
          THEN [animations |-> [anims EXCEPT ![i] = e.u], state |-> e.st,
                log |-> log, err |-> TRUE]
          ELSE FinishLoop([anims EXCEPT ![i] = e.u], e.st, abort, i + 1,
                          Append(log, Ev("end", anims[i])))

\* Item.prototype.finish(abort): the queue, state and infinite it leaves
ItemFinish(anims, st, inf, abort) ==
  IF anims = <<>>
  THEN [animations |-> anims, state |-> st, infinite |-> inf, log |-> <<>>,
        err |-> FALSE]
  ELSE LET r == FinishLoop(anims, st, abort, 1, <<>>)
       IN IF r.err
          THEN [animations |-> r.animations, state |-> r.state,
                infinite |-> inf, log |-> r.log, err |-> TRUE]
          ELSE [animations |-> <<>>, state |-> r.state, infinite |-> FALSE,
                log |-> r.log, err |-> FALSE]

\* Item.prototype.pause: the queue it leaves (running becomes false)
ItemPause(anims, t) ==
  IF anims = <<>> THEN anims ELSE <<UnitPause(Head(anims), t)>> \o Tail(anims)

\* Item.prototype.resume: the queue it leaves (running becomes true)
ItemResume(anims, t) ==
  IF anims = <<>> THEN anims ELSE <<UnitResume(Head(anims), t)>> \o Tail(anims)

\* Item.prototype.pause, whole: the queue and the running flag it leaves
ItemPauseCall(anims, run, t) ==
  IF ~run THEN [animations |-> anims, running |-> run]
  ELSE [animations |-> ItemPause(anims, t), running |-> FALSE]

\* Item.prototype.resume, whole: the queue and the running flag it leaves
ItemResumeCall(anims, run, t) ==
  IF run THEN [animations |-> anims, running |-> run]
  ELSE [animations |-> ItemResume(anims, t), running |-> TRUE]

----------------------------------------------------------------------------
(* Bounds and inputs *)

MaxUnits == 2     \* animate() calls in one behaviour of Spec
MaxTick == 3      \* last value of the clock in Spec
MaxQueue == 3     \* longest queue that SpecSeek and SpecRun start from
SeekEnd == 7      \* largest tick that SpecSeek seeks to
RunEnd == 7       \* last value of the clock in SpecRun
ScenarioEnd == 17 \* last value of the clock in SpecScenario
PauseEnd == 6     \* last value of the clock in SpecPause
MaxItems == 2     \* Items registered with a World or Timeline
TimelineEnd == 3  \* last value of the clock, and largest seek, in SpecTimeline
MaxPlays == 1     \* play() calls in one behaviour of SpecTimeline
WorldEnd == 3     \* last value of the clock in SpecWorld
MaxLoops == 2     \* frame requests pending at once in SpecWorld
AnimEnd == 1      \* the tick, other than 0, handed to init in SpecAnim
Steps == 3        \* transform(p) is called with p = k / Steps, k in 0..Steps
MaxInits == 2     \* init calls that take effect in one behaviour of SpecAnim
MaxNudge == 1     \* Item.translate calls in one behaviour of SpecAnim
LoopEnd == 21     \* last value of the clock in SpecLoop
CallEnd == 5       \* last value of the clock in SpecCall
CallQueue == 2     \* longest queue that SpecCall starts from
PairEnd == 2       \* last value of the clock in SpecPair
MaxShift == 2      \* translate() calls on one Item in SpecPair
MaxCalls == 4      \* calls on the two Items in one behaviour of SpecPair
GroupEnd == 8      \* last value of the clock in SpecGroup
GroupQueue == 2    \* longest queue that SpecGroup starts from
HoldEnd == 8        \* last value of the clock in SpecHold
IdleEnd == 3        \* last value of the clock, and largest tick, in SpecIdle
DrainStep == 2      \* largest step of the clock between two frames in SpecDrain
DrainQueue == 2     \* longest queue that SpecDrain starts from
MaxListeners == 2   \* listeners of one event in SpecEmitter
MaxEnds == 5      \* hist.ends counts no further

\* a transform object {translate, rotate, scale, opacity, duration, delay}
Transform(t, r, s, o, dur, del) ==
  [translate |-> t, rotate |-> r, scale |-> s, opacity |-> o,
   duration |-> dur, delay |-> del]

\* the arguments of one animate() call on a single transform
Single(tr, dur, del) ==
  [array |-> FALSE, transform |-> tr, duration |-> dur, delay |-> del]

\* the arguments of one animate() call on an array of transforms
Group(trs, dur, del) ==
  [array |-> TRUE, transform |-> trs, duration |-> dur, delay |-> del]

MoveX == Single(Transform(<<6 * Unit, 0, 0>>, Null, Null, Null, Null, Null),
                Some(2), Null)
TurnFade == Single(Transform(Null, <<0, 0, 90 * Unit>>, Null, Some(Unit \div 5),
                             Some(4), Null), Null, Null)
Grow == Single(Transform(<<0, 3 * Unit, 0>>, Null, <<Unit, Unit, 0>>, Null,
                         Null, Null), Some(3), Null)
Late == Single(Transform(<<0, 0, 2 * Unit>>, Null, Null, Null, Null, Some(1)),
               Some(2), Null)
Both == Group(<<Transform(<<4 * Unit, 0, 0>>, Null, Null, Null, Some(1), Null),
                Transform(Null, <<9 * Unit, 0, 0>>, Null, Null, Null, Null)>>,
              Some(3), Null)
Stagger == Group(<<Transform(Null, Null, <<Unit, 0, 0>>, Null, Some(1), Some(2)),
                   Transform(<<0, 6 * Unit, 0>>, Null, Null, Null, Some(6),
                             Null)>>,
                 Null, Null)

Trail == Group(<<Transform(<<2 * Unit, 0, 0>>, Null, Null, Null, Some(2),
                           Some(3)),
                 Transform(Null, <<0, 8 * Unit, 0>>, Null, Null, Some(4),
                           Null)>>,
               Null, Null)

\* the animate() calls of Spec
Inputs == {MoveX, Both}

\* the queue that the animate() calls `ins` build on a new Item
RECURSIVE Build(_, _)
Build(ins, n) ==
  IF n = 0 THEN <<>>
  ELSE Append(Build(ins, n - 1), ItemAnimate(n, ins[n]))

InputSeqs(S, n) == UNION {[1..k -> S] : k \in 1..n}

Ids(anims) == [i \in 1..Len(anims) |-> anims[i].id]

----------------------------------------------------------------------------
(* History *)

NoCall == [op |-> "none", arg |-> 0, log |-> <<>>, err |-> FALSE]

\* the record of a call `op` with argument `arg` whose outcome is r
Called(op, arg, r) ==
  [op |-> op, arg |-> arg, log |-> r.log, err |-> r.err]

NoHist ==
  [first |-> -1, tick |-> -1, dense |-> TRUE, ends |-> 0, snap |-> Null,
   seen |-> {}, open |-> {}]

\* the tick at which the state is recorded (500 ms), and the deliveries
\* that are remembered (1000 ms)
SnapTick == DefaultDuration
Watch == {2 * DefaultDuration}

Ends(log) == Cardinality({i \in 1..Len(log) : log[i][1] = "end"})

Min(a, b) == IF a <= b THEN a ELSE b

\* history after animation(t) returned with outcome r
Played(h, t, r) ==
  [first |-> IF h.first < 0 THEN t ELSE h.first,
   tick |-> t,
   dense |-> IF h.first < 0 THEN t = 0
             ELSE h.dense /\ t \in {h.tick, h.tick + 1},
   ends |-> Min(MaxEnds, h.ends + Ends(r.log)),
   snap |-> IF t = SnapTick THEN Some(r.state) ELSE h.snap,
   seen |-> h.seen \cup ({t} \cap Watch),
   open |-> h.open]

\* no playthrough of a head has been seen
NoTrack == [id |-> 0, init |-> 0, paused |-> 0, at |-> 0, offset |-> 0]

\* history after animation(t) returned with outcome r: when the call
\* initialised the Animation that is now the head, its playthrough begins at t
Tracked(tr, t, r) ==
  IF /\ r.animations # <<>>
     /\ r.animations[1].kind = "A"
     /\ \E k \in 1..Len(r.log) : r.log[k] = <<"init", r.animations[1].id>>
  THEN [id |-> r.animations[1].id, init |-> t, paused |-> 0, at |-> 0,
        offset |-> 0]
  ELSE tr

\* history after pause() at frame time t: the elapsed offset of the head
PausedAt(tr, anims, t) ==
  IF anims # <<>> /\ anims[1].id = tr.id /\ anims[1].start # Null
  THEN [tr EXCEPT !.at = t, !.offset = t - anims[1].start[1]]
  ELSE [tr EXCEPT !.id = 0]

\* history after resume() at frame time t: the pause that ended lasted t - at
ResumedAt(tr, t) ==
  IF tr.id # 0 THEN [tr EXCEPT !.paused = @ + (t - tr.at)] ELSE tr

----------------------------------------------------------------------------
(* The clocks *)

\* what Date.now() is ahead of the tick that the host hands to a frame
\* callback: both run at the same rate, their origins are the host's choice
Origins == {0, DefaultDuration}

\* Date.now()
DateNow == now + origin

\* a World that has requested no frame: _frame, whether the request that
\* _frame names is still pending, and the number of pending requests whose
\* callback updates this World
NoWorld == [frame |-> Null, live |-> FALSE, pending |-> 0]

\* World.prototype.init, and the last line of its frame callback:
\* this._frame = _requestAnimationFrame(update)
WorldInit(w) == [frame |-> Some(1), live |-> TRUE, pending |-> w.pending + 1]

\* World.prototype.cancel
WorldCancel(w) ==
  [frame |-> Some(0), live |-> FALSE,
   pending |-> IF w.frame # Null /\ w.frame # Some(0) /\ w.live
               THEN w.pending - 1 ELSE w.pending]

\* new Timeline(): running and _changed are undefined, which reads as false
NoTimeline == [currentTime |-> 0, start |-> 0, running |-> FALSE,
               changed |-> FALSE]

\* no call has been made on the World or Timeline
NoSeen == [op |-> "none", plays |-> 0, playAt |-> 0, playFrom |-> 0,
           seekTo |-> 0, driven |-> <<>>, halted |-> FALSE, late |-> FALSE,
           fired |-> FALSE, resumed |-> FALSE]

\* no Matrix function has been called
NoCalc == [op |-> "none", m |-> <<>>, out |-> <<>>, err |-> FALSE]

\* no Item is registered: no state array is referred to; v is the content
\* of an array that the caller of the library holds
NoHeap == [at |-> <<>>, v |-> <<0, 0, 0>>]

\* the events that the units notify
Events == {"start", "end"}

\* new EventEmitter(): this.handlers = {}, no event has a list of listeners;
\* an event that has one has Some(list)
NoHandlers == [e \in Events |-> Null]

\* no World and no Timeline has been constructed
NoSched ==
  /\ heap = NoHeap
  /\ handlers = NoHandlers
  /\ items = <<>>
  /\ world = NoWorld
  /\ timeline = NoTimeline
  /\ seen = NoSeen
  /\ calc = NoCalc

----------------------------------------------------------------------------
(* The Item as a state machine *)

\* new Item(node), before any animate()
Init ==
  /\ state = DefaultState
  /\ animations = <<>>
  /\ infinite = FALSE
  /\ running = TRUE
  /\ now = 0
  /\ built = <<>>
  /\ last = NoCall
  /\ hist = NoHist
  /\ hung = FALSE
  /\ origin \in Origins
  /\ track = NoTrack
  /\ NoSched

\* a new Item after the animate() calls `ins`
Built(ins, inf) ==
  /\ state = DefaultState
  /\ animations = Build(ins, Len(ins))
  /\ infinite = inf
  /\ running = TRUE
  /\ now = 0
  /\ built = Build(ins, Len(ins))
  /\ last = NoCall
  /\ hist = NoHist
  /\ hung = FALSE
  /\ track = NoTrack

\* the caller goes on: no call has thrown, none is stuck in a loop
Live == ~hung /\ ~last.err

\* the host clock moves on
Advance(max) ==
  /\ Live
  /\ now < max
  /\ now' = now + 1
  /\ UNCHANGED <<state, animations, infinite, running, built, last, hist, hung>>
  /\ UNCHANGED <<origin, track, sched, calc>>

\* item.animate(...)
Animate ==
  /\ Live
  /\ Len(built) < MaxUnits
  /\ \E input \in Inputs :
       LET u == ItemAnimate(Len(built) + 1, input) IN
       /\ animations' = Append(animations, u)
       /\ built' = Append(built, u)
       /\ last' = Called("animate", u.id, [log |-> <<>>, err |-> FALSE])
  /\ UNCHANGED <<state, infinite, running, now, hist, hung>>
  /\ UNCHANGED <<origin, track, sched, calc>>

\* animation.infinite() on any unit that animate() has returned
Infinite ==
  /\ Live
  /\ built # <<>>
  /\ ~infinite
  /\ infinite' = TRUE
  /\ last' = Called("infinite", 0, [log |-> <<>>, err |-> FALSE])
  /\ UNCHANGED <<state, animations, running, now, built, hist, hung>>
  /\ UNCHANGED <<origin, track, sched, calc>>

\* item.animation(tick) with tick = t; `record` says whether the playback
\* history is kept
Play(t, record) ==
  /\ Live
  /\ LET r == ItemAnimation(animations, state, running, infinite, t) IN
       IF r.hung
       THEN /\ hung' = TRUE
            /\ UNCHANGED <<state, animations, last, hist, track>>
       ELSE /\ state' = r.state
            /\ animations' = r.animations
            /\ last' = Called("animation", t, r)
            /\ hist' = IF record THEN Played(hist, t, r) ELSE hist
            /\ track' = IF record THEN Tracked(track, t, r) ELSE track
            /\ hung' = FALSE
  /\ UNCHANGED <<infinite, running, built, origin, sched, calc>>

\* one frame of a free-running host: item.animation(now)
Tick ==
  /\ Play(now, FALSE)
  /\ UNCHANGED now

\* item.seek(tick) with tick = t
SeekTo(t) ==
  /\ Live
  /\ LET r == ItemSeek(animations, state, t) IN
       /\ state' = r.state
       /\ animations' = r.animations
       /\ last' = Called("seek", t, r)
  /\ UNCHANGED <<infinite, running, now, built, hist, hung>>
  /\ UNCHANGED <<origin, track, sched, calc>>


\* item.finish(abort)
FinishWith(abort) ==
  /\ Live
  /\ LET r == ItemFinish(animations, state, infinite, abort) IN
       /\ state' = r.state
       /\ animations' = r.animations
       /\ infinite' = r.infinite
       /\ last' = Called(IF abort THEN "stop" ELSE "finish", 0, r)
  /\ UNCHANGED <<running, now, built, hist, hung>>
  /\ UNCHANGED <<origin, track, sched, calc>>

\* item.finish() and item.finish(false)
Finish == FinishWith(FALSE)

\* item.stop()
Stop == FinishWith(TRUE)

\* item.pause()
Pause ==
  /\ Live
  /\ running
  /\ animations' = ItemPause(animations, DateNow)
  /\ running' = FALSE
  /\ last' = Called("pause", 0, [log |-> <<>>, err |-> FALSE])
  /\ track' = PausedAt(track, animations, now)
  /\ UNCHANGED <<state, infinite, now, built, hist, hung, origin, sched, calc>>

\* item.resume()
Resume ==
  /\ Live
  /\ ~running
  /\ animations' = ItemResume(animations, DateNow)
  /\ running' = TRUE
  /\ last' = Called("resume", 0, [log |-> <<>>, err |-> FALSE])
  /\ track' = ResumedAt(track, now)
  /\ UNCHANGED <<state, infinite, now, built, hist, hung, origin, sched, calc>>

Next ==
  \/ Advance(MaxTick)
  \/ Animate
  \/ Infinite
  \/ Tick
  \/ Finish
  \/ Stop
  \/ Pause
  \/ Resume

Spec == Init /\ [][Next]_vars

----------------------------------------------------------------------------
(* Seeking only: a new Item with a built queue, then any seek calls *)

SeekInputs == {MoveX, TurnFade, Grow, Late, Both, Stagger}

InitSeek ==
  /\ \E ins \in InputSeqs(SeekInputs, MaxQueue) \cup {<<>>} : Built(ins, FALSE)
  /\ origin = 0
  /\ NoSched

Seek == \E t \in 0..SeekEnd : SeekTo(t)

SpecSeek == InitSeek /\ [][Seek]_vars

----------------------------------------------------------------------------
(* Free-running only: a new Item with a built queue, never paused, not
   infinite, driven by animation(tick) over non-decreasing ticks *)

RunInputs == {MoveX, TurnFade, Grow, Late}

InitRun ==
  /\ \E ins \in InputSeqs(RunInputs, MaxQueue) : Built(ins, FALSE)
  /\ origin = 0
  /\ NoSched

\* one frame: item.animation(now), remembered in hist
Deliver ==
  /\ Play(now, TRUE)
  /\ UNCHANGED now

NextRun == Advance(RunEnd) \/ Deliver

SpecRun == InitRun /\ [][NextRun]_vars

----------------------------------------------------------------------------
(* Claims about seek *)

\* the TransformState of a freshly built, identical Item after one seek(t)
FreshSeek(t) == ItemSeek(built, DefaultState, t).state

\* C1: seek(t) is history-independent: whatever seek calls came before, the
\* state after seek(t) is the state a freshly built identical Item has after
\* one seek(t).
C1_SeekHistoryIndependent ==
  last.op = "seek" => state = FreshSeek(last.arg)

\* C2: seek(t) immediately followed by seek(t) leaves the state as the first
\* call left it.
C2_SeekIdempotent ==
  [][\A t \in 0..SeekEnd :
       (last.op = "seek" /\ last.arg = t /\ SeekTo(t)) => state' = state]_vars

\* C1 and C2 restricted to queues of single Animations (no Parallel): there
\* both hold
OnlyAnimations == \A i \in 1..Len(built) : built[i].kind = "A"

SeekHistoryIndependentSingles ==
  (OnlyAnimations /\ last.op = "seek") => state = FreshSeek(last.arg)

SeekIdempotentSingles ==
  [][\A t \in 0..SeekEnd :
       (OnlyAnimations /\ last.op = "seek" /\ last.arg = t /\ SeekTo(t))
         => state' = state]_vars

----------------------------------------------------------------------------
(* Claims about free-running playback against seek *)

\* C3: for a non-infinite, never-paused Item driven by animation(tick) over
\* any non-decreasing ticks beginning at 0, the state after each delivered
\* tick is the state an identical Item has after seek(tick).
C3_PlaybackAgreesWithSeek ==
  (last.op = "animation" /\ hist.first = 0) => state = FreshSeek(hist.tick)

\* the queue holds sequential Animations without delay
NoDelaySingles ==
  \A i \in 1..Len(built) : built[i].kind = "A" /\ built[i].delay = 0

\* C4: for sequential Animations with integer durations and no delay,
\* animation(tick) called at every integer tick 0, 1, ..., T leaves the state
\* that seek(T) leaves on an identical Item.
C4_DensePlaybackAgreesWithSeek ==
  (last.op = "animation" /\ hist.first = 0 /\ hist.dense /\ NoDelaySingles)
    => state = FreshSeek(hist.tick)

\* the third unit of a three-unit queue is part-way through under dense ticks
C4_Witness ==
  /\ last.op = "animation" /\ hist.first = 0 /\ hist.dense /\ NoDelaySingles
  /\ Len(built) = 3 /\ Len(animations) = 1
  /\ hist.tick > ToNumber(animations[1].start)
  /\ state # animations[1].initial[1]

----------------------------------------------------------------------------
(* The end-to-end scenario: translate by [100,0,0] over 1000 ms, then by
   [0,50,0] over 500 ms after a delay of 100 ms *)

ScenarioFirst ==
  Single(Transform(<<100 * Unit, 0, 0>>, Null, Null, Null, Null, Null),
         Some(2 * DefaultDuration), Null)
ScenarioSecond ==
  Single(Transform(<<0, 50 * Unit, 0>>, Null, Null, Null, Null, Null),
         Some(DefaultDuration), Some(1))

InitScenario ==
  /\ Built(<<ScenarioFirst, ScenarioSecond>>, FALSE)
  /\ origin = 0
  /\ NoSched

NextScenario == Advance(ScenarioEnd) \/ Deliver

SpecScenario == InitScenario /\ [][NextScenario]_vars

\* C5: in the scenario, played from tick 0, state.translate is [100,0,0] at
\* tick 1000, still [100,0,0] at tick 1100, and [100,50,0] at tick 1600; the
\* same three states are what seek(1000), seek(1100) and seek(1600) give.
C5_Scenario ==
  /\ (last.op = "animation" /\ hist.first = 0) =>
       /\ hist.tick = 10 => state.translate = <<100 * Unit, 0, 0>>
       /\ hist.tick = 11 => state.translate = <<100 * Unit, 0, 0>>
       /\ (hist.tick = 16 /\ 10 \in hist.seen)
            => state.translate = <<100 * Unit, 50 * Unit, 0>>
  /\ FreshSeek(10).translate = <<100 * Unit, 0, 0>>
  /\ FreshSeek(11).translate = <<100 * Unit, 0, 0>>
  /\ FreshSeek(16).translate = <<100 * Unit, 50 * Unit, 0>>

\* tick 1600 is delivered after ticks 0 and 1000 were
C5_Witness ==
  /\ last.op = "animation" /\ hist.first = 0
  /\ hist.tick = 16 /\ 10 \in hist.seen
  /\ animations = <<>>

----------------------------------------------------------------------------
(* The infinite loop: one 500 ms Animation, infinite, a frame every tick *)

LoopTransforms ==
  {Transform(<<3 * Unit, 0, 0>>, Null, Null, Null, Null, Null),
   Transform(Null, Null, Null, Some(Unit \div 5), Null, Null),
   Transform(<<0, Unit, 0>>, Null, Null, Some(Unit \div 2), Null, Null),
   Transform(Null, <<0, 0, 45 * Unit>>, <<Unit, Unit, 0>>, Null, Null, Null),
   Transform(<<Unit, 0, 2 * Unit>>, <<5 * Unit, 0, 0>>, Null, Some(0), Null,
             Null),
   Transform(Null, Null, <<0, 0, 2 * Unit>>, Null, Some(DefaultDuration),
             Null)}

InitLoop ==
  /\ \E tr \in LoopTransforms : Built(<<Single(tr, Null, Null)>>, TRUE)
  /\ origin = 0
  /\ NoSched

\* a frame at every tick: item.animation(now), then the clock moves on
Frame ==
  /\ now <= LoopEnd
  /\ Play(now, TRUE)
  /\ now' = now + 1

SpecLoop == InitLoop /\ [][Frame]_vars

\* C8 as stated: ticked from 0 past t = 2000, the unit has ended and started
\* again at least 3 times and the state at t = 2000 equals the state at
\* t = 500.
C8_LoopReturnsToState ==
  (last.op = "animation" /\ hist.tick = 4 * SnapTick) =>
     /\ hist.ends >= 3
     /\ state = hist.snap[1]

\* the delta an Animation asks for in a vector field (zero when absent)
Delta(a, f) == IF a[f] = Null THEN <<0, 0, 0>> ELSE a[f]

\* C8 as amended: ticked at every tick from 0 past t = 2000, the unit has
\* ended and started again at least 3 times; at t = 2000 every vector field
\* equals its value at t = 500 plus 3 times the Animation's delta, and the
\* opacity equals the opacity at t = 500.
C8_LoopAccumulates ==
  (last.op = "animation" /\ hist.tick = 4 * SnapTick) =>
     /\ hist.ends >= 3
     /\ \A f \in {"translate", "rotate", "scale"} : \A i \in 1..3 :
          state[f][i] = hist.snap[1][f][i] + 3 * Delta(built[1], f)[i]
     /\ state.opacity = hist.snap[1].opacity

\* t = 2000 is reached by an Animation that moves a vector field
C8_Witness ==
  /\ last.op = "animation" /\ hist.tick = 4 * SnapTick
  /\ hist.ends >= 3
  /\ state.translate # hist.snap[1].translate

----------------------------------------------------------------------------
(* Claims about one call of animation(tick) *)

\* the ids of the events `what` of a log, in order
IdsOf(log, what) ==
  LET sel == SelectSeq(log, LAMBDA e : e[1] = what)
  IN [i \in 1..Len(sel) |-> sel[i][2]]

\* the i-th id of `ids` counted cyclically
Cyclic(ids, i) == ids[((i - 1) % Len(ids)) + 1]

\* an animation(tick) call that returned normally
Returned == Tick /\ ~hung' /\ ~last'.err

\* C6: in free-running mode units are ended in queue order, and one
\* animation(tick) call runs at most one unit, the head that remains after the
\* elapsed heads were popped and ended; no unit behind that head is
\* initialised or run in the call.
C6_OneHeadPerCall ==
  [][Returned =>
       LET log == last'.log
           ended == IdsOf(log, "end")
           ran == IdsOf(log, "run")
       IN /\ \A j \in 1..Len(ended) : ended[j] = Cyclic(Ids(animations), j)
          /\ Len(ran) <= 1
          /\ Len(ran) = 1 =>
               /\ log[Len(log)] = <<"run", ran[1]>>
               /\ animations' # <<>>
               /\ animations'[1].id = ran[1]
          /\ \A k \in 1..Len(log) :
               log[k][1] = "init" =>
                 /\ k < Len(log)
                 /\ log[k + 1][1] \in {"end", "run"}
                 /\ log[k + 1][2] = log[k][2]
          /\ \A i \in 2..Len(animations') :
               (\A j \in 1..Len(ended) : ended[j] # animations'[i].id) =>
                 \E k \in 1..Len(animations) : animations[k] = animations'[i]
  ]_vars

\* a call of a non-infinite Item ended at least one unit and ran the unit
\* that became the head, which stays in the queue
C6_Witness ==
  /\ last.op = "animation" /\ ~last.err /\ ~infinite
  /\ Len(IdsOf(last.log, "end")) >= 1
  /\ Len(IdsOf(last.log, "run")) = 1
  /\ animations # <<>>

\* C7: while infinite is set, every animation(tick) call that ends the head
\* appends that same unit at the tail: the queue keeps its length and the
\* cyclic order of its units.
C7_InfiniteKeepsQueue ==
  [][(Returned /\ infinite) =>
       /\ Len(animations') = Len(animations)
       /\ \A i \in 1..Len(animations) :
            animations'[i].id =
              Cyclic(Ids(animations), i + Len(IdsOf(last'.log, "end")))
  ]_vars

\* a call with infinite set ended the head of a queue of two units
C7_Witness ==
  /\ last.op = "animation" /\ ~last.err /\ infinite
  /\ Len(IdsOf(last.log, "end")) >= 1
  /\ Len(animations) = 2

----------------------------------------------------------------------------
(* Claims about finish(abort) and stop() *)

\* C9: stop() leaves the TransformState as it was before the call, the queue
\* empty and infinite = false, in every reachable situation.
C9_StopLeavesStateClearsQueue ==
  [][Stop => (state' = state /\ animations' = <<>> /\ infinite' = FALSE)]_vars

\* C10: finish(abort), for either abort and any queue, completes normally
\* after ending every queued unit in queue order, and leaves the queue empty
\* and infinite = false.
C10_FinishCompletes ==
  [][(Finish \/ Stop) =>
       /\ ~last'.err
       /\ IdsOf(last'.log, "end") = Ids(animations)
       /\ animations' = <<>>
       /\ infinite' = FALSE
  ]_vars

----------------------------------------------------------------------------
(* Pausing: a new Item with a queue of Animations, played, paused and
   resumed at any times *)

PauseInputs == {MoveX, TurnFade, Late}

InitPause ==
  /\ \E ins \in InputSeqs(PauseInputs, 2) : Built(ins, FALSE)
  /\ origin \in Origins
  /\ NoSched

NextPause == Advance(PauseEnd) \/ Deliver \/ Pause \/ Resume

SpecPause == InitPause /\ [][NextPause]_vars

\* the head is an Animation whose initialisation by animation(tick) and
\* whose pauses since are on record
HeadTracked ==
  /\ track.id # 0
  /\ animations # <<>>
  /\ animations[1].kind = "A"
  /\ animations[1].id = track.id
  /\ animations[1].start # Null

\* C11: when an Item whose head is an initialised Animation is paused at p
\* and resumed at r >= p, the head's elapsed offset tick - start right after
\* the resume is its elapsed offset at the pause; and the head is ended by
\* the first animation(tick) whose unpaused time since the initialisation
\* reaches delay + duration, not by an earlier one.
C11_ResumeKeepsOffset ==
  [][/\ (Resume /\ HeadTracked) =>
          now' - animations'[1].start[1] = track.offset
     /\ (Deliver /\ running /\ HeadTracked) =>
          LET a == animations[1]
              unpaused == now - track.init - track.paused
          IN (\E k \in 1..Len(last'.log) : last'.log[k] = <<"end", a.id>>)
               <=> unpaused >= a.delay + a.duration
  ]_vars

\* an Animation that was paused part-way for some time has been ended
C11_Witness ==
  /\ last.op = "animation"
  /\ track.id # 0 /\ track.paused > 0 /\ track.offset > 0
  /\ \E k \in 1..Len(last.log) : last.log[k] = <<"end", track.id>>

----------------------------------------------------------------------------
(* Timeline *)

\* world.add(node) followed by the animate() calls `ins` on the new Item
NewItem(ins) ==
  [state |-> DefaultState, animations |-> Build(ins, Len(ins)),
   infinite |-> FALSE, running |-> TRUE]

\* Item.prototype.timeline(tick): seek(tick), then style()
ItemTimeline(it, tick) ==
  LET r == ItemSeek(it.animations, it.state, tick)
  IN [it EXCEPT !.state = r.state, !.animations = r.animations]

\* the loop of Timeline.prototype.update(tick), at index i: `driven` notes
\* for every Item the tick it was seeked to, or Null when it was only styled
RECURSIVE TimelineUpdate(_, _, _, _, _, _)
TimelineUpdate(its, i, changed, run, tick, driven) ==
  IF i > Len(its) THEN [items |-> its, changed |-> changed, driven |-> driven]
  ELSE IF changed \/ run
  THEN TimelineUpdate([its EXCEPT ![i] = ItemTimeline(its[i], tick)], i + 1,
                      FALSE, run, tick, Append(driven, Some(tick)))
  ELSE TimelineUpdate(its, i + 1, changed, run, tick, Append(driven, Null))

\* the frame callback `update` of Timeline.prototype.init, with tick = now
TimelineFrame ==
  /\ world.pending > 0
  /\ LET ct == IF timeline.running THEN now - timeline.start
                ELSE timeline.currentTime
         r == TimelineUpdate(items, 1, timeline.changed, timeline.running,
                             ct, <<>>)
     IN /\ items' = r.items
        /\ timeline' = [timeline EXCEPT !.currentTime = ct,
                                        !.changed = r.changed]
        /\ seen' = [seen EXCEPT !.op = "frame", !.seekTo = 0,
                                !.driven = r.driven]
  /\ UNCHANGED <<state, animations, infinite, running, now, built, last, hist,
                 hung, origin, track, calc, heap, handlers,
                 world>>

\* Timeline.prototype.play
TimelinePlay ==
  /\ seen.plays < MaxPlays
  /\ timeline' = [timeline EXCEPT !.running = TRUE,
                                  !.start = DateNow - timeline.currentTime]
  /\ seen' = [seen EXCEPT !.op = "play", !.plays = @ + 1, !.playAt = now,
                          !.playFrom = timeline.currentTime, !.seekTo = 0,
                          !.driven = <<>>]
  /\ UNCHANGED <<state, animations, infinite, running, now, built, last, hist,
                 hung, origin, track, calc, heap, handlers,
                 items, world>>

\* Timeline.prototype.pause
TimelinePause ==
  /\ timeline' = [timeline EXCEPT !.running = FALSE]
  /\ seen' = [seen EXCEPT !.op = "pause", !.playAt = 0, !.playFrom = 0,
                          !.seekTo = 0, !.driven = <<>>]
  /\ UNCHANGED <<state, animations, infinite, running, now, built, last, hist,
                 hung, origin, track, calc, heap, handlers,
                 items, world>>

\* Timeline.prototype.stop
TimelineStop ==
  /\ timeline' = [timeline EXCEPT !.currentTime = 0, !.running = FALSE]
  /\ seen' = [seen EXCEPT !.op = "stop", !.playAt = 0, !.playFrom = 0,
                          !.seekTo = 0, !.driven = <<>>]
  /\ UNCHANGED <<state, animations, infinite, running, now, built, last, hist,
                 hung, origin, track, calc, heap, handlers,
                 items, world>>

\* Timeline.prototype.seek(time)
TimelineSeek ==
  /\ \E t \in 0..TimelineEnd :
       /\ timeline' = [timeline EXCEPT !.changed = TRUE, !.currentTime = t]
       /\ seen' = [seen EXCEPT !.op = "seek", !.seekTo = t, !.driven = <<>>]
  /\ UNCHANGED <<state, animations, infinite, running, now, built, last, hist,
                 hung, origin, track, calc, heap, handlers,
                 items, world>>

\* the queues of the Items of SpecTimeline
TimelineInputs == {<<MoveX>>, <<Late>>}

\* new Timeline() has requested its first frame; Items were added and given
\* their queues
InitTimeline ==
  /\ Built(<<>>, FALSE)
  /\ origin \in Origins
  /\ \E n \in 1..MaxItems : \E qs \in [1..n -> TimelineInputs] :
       items = [i \in 1..n |-> NewItem(qs[i])]
  /\ world = WorldInit(NoWorld)
  /\ timeline = NoTimeline
  /\ seen = NoSeen
  /\ heap = NoHeap
  /\ handlers = NoHandlers
  /\ calc = NoCalc

NextTimeline ==
  \/ Advance(TimelineEnd)
  \/ TimelineFrame
  \/ TimelinePlay
  \/ TimelinePause
  \/ TimelineStop
  \/ TimelineSeek

SpecTimeline == InitTimeline /\ [][NextTimeline]_vars

\* C12: while the timeline is not running no frame callback changes
\* currentTime; after play(), each frame sets currentTime to the value stored
\* at play() plus the time elapsed since play() was called.
C12_CurrentTimeFollowsPlay ==
  [][TimelineFrame =>
       IF timeline.running
       THEN timeline'.currentTime = seen.playFrom + (now - seen.playAt)
       ELSE timeline'.currentTime = timeline.currentTime
  ]_vars

\* C12 where Date.now() and the frame tick have the same origin: there it
\* holds
CurrentTimeFollowsPlaySameOrigin ==
  [][(TimelineFrame /\ origin = 0) =>
       IF timeline.running
       THEN timeline'.currentTime = seen.playFrom + (now - seen.playAt)
       ELSE timeline'.currentTime = timeline.currentTime
  ]_vars

\* C13: after seek(t) on a running timeline, the next frame drives every Item
\* at virtual time t (and playback goes on from t).
C13_SeekWhileRunning ==
  [][(TimelineFrame /\ timeline.running /\ seen.op = "seek") =>
       /\ timeline'.currentTime = seen.seekTo
       /\ \A i \in 1..Len(items) : seen'.driven[i] = Some(seen.seekTo)
  ]_vars

\* C14: after seek(t) on a timeline that is not running, the next frame
\* re-seeks every registered Item to t: each Item's state after the frame is
\* its own seek(t) state, and _changed is cleared with every Item re-seeked.
C14_FrameReseeksEveryItem ==
  [][(TimelineFrame /\ ~timeline.running /\ seen.op = "seek") =>
       /\ ~timeline'.changed
       /\ \A i \in 1..Len(items) :
            /\ seen'.driven[i] = Some(seen.seekTo)
            /\ items'[i].state =
                 ItemSeek(items[i].animations, items[i].state,
                          seen.seekTo).state
  ]_vars

\* C14 for a timeline with one Item: there it holds
FrameReseeksSingleItem ==
  [][(TimelineFrame /\ ~timeline.running /\ seen.op = "seek"
        /\ Len(items) = 1) =>
       /\ ~timeline'.changed
       /\ seen'.driven[1] = Some(seen.seekTo)
       /\ items'[1].state =
            ItemSeek(items[1].animations, items[1].state, seen.seekTo).state
  ]_vars

----------------------------------------------------------------------------
(* World *)

\* Item.prototype.update(tick): animation(tick), then style()
ItemUpdate(it, tick) ==
  ItemAnimation(it.animations, it.state, it.running, it.infinite, tick)

\* the registered Item `it` after a call with outcome r
ItemAfter(it, r) ==
  [it EXCEPT !.state = r.state, !.animations = r.animations]

\* the registered Item `it` after finish(abort) with outcome r
ItemFinished(it, r) ==
  [ItemAfter(it, r) EXCEPT !.infinite = r.infinite]

\* Item.prototype.stop on a registered Item
ItemStopped(it) ==
  ItemFinished(it, ItemFinish(it.animations, it.state, it.infinite, TRUE))

\* Item.prototype.pause on a registered Item
ItemPaused(it, t) ==
  IF ~it.running THEN it
  ELSE [it EXCEPT !.animations = ItemPause(it.animations, t),
                  !.running = FALSE]

\* Item.prototype.resume on a registered Item
ItemResumed(it, t) ==
  IF it.running THEN it
  ELSE [it EXCEPT !.animations = ItemResume(it.animations, t),
                  !.running = TRUE]

\* the loops of World.prototype.stop and World.prototype.pause
WorldHalt(its, op, t) ==
  [i \in 1..Len(its) |->
     IF op = "stop" THEN ItemStopped(its[i]) ELSE ItemPaused(its[i], t)]

\* what an 'end' handler on the last unit of a queue may call
Handlers == {"none", "stop", "pause"}

\* the loop of World.prototype.update(tick), at index i.  When the last unit
\* of an Item's queue ends in this frame, its 'end' handler h runs inside
\* Item.animation, once: world.stop() or world.pause().  `sn` notes whether
\* stop() or pause() has returned, and whether an Item received update(tick)
\* after that.
RECURSIVE WorldUpdate(_, _, _, _, _, _, _)

\* the rest of the loop after the handler ran (fires) or did not
WorldUpdateNext(its, i, tick, t, w, h, sn, fires) ==
  WorldUpdate(IF fires THEN WorldHalt(its, h, t) ELSE its, i + 1, tick, t,
              IF fires THEN WorldCancel(w) ELSE w, h,
              IF fires THEN [sn EXCEPT !.fired = TRUE, !.halted = TRUE]
              ELSE sn)

\* the rest of the loop after items[i].update(tick) had outcome r
WorldUpdated(its, i, tick, t, w, h, sn, r) ==
  IF r.err
  THEN [items |-> [its EXCEPT ![i] = ItemAfter(@, r)], world |-> w,
        seen |-> sn, err |-> TRUE]
  ELSE WorldUpdateNext([its EXCEPT ![i] = ItemAfter(@, r)], i, tick, t, w, h,
                       sn,
                       h # "none" /\ ~sn.fired /\ r.animations = <<>>
                         /\ Ends(r.log) > 0)

WorldUpdate(its, i, tick, t, w, h, sn) ==
  IF i > Len(its) THEN [items |-> its, world |-> w, seen |-> sn, err |-> FALSE]
  ELSE WorldUpdated(its, i, tick, t, w, h,
                    IF sn.halted THEN [sn EXCEPT !.late = TRUE] ELSE sn,
                    ItemUpdate(its[i], tick))

\* the end of the frame callback after update(tick) had outcome r
WorldFramed(r) ==
  /\ items' = r.items
  /\ seen' = [r.seen EXCEPT !.op = "frame"]
  /\ world' = IF r.err THEN r.world ELSE WorldInit(r.world)

\* the frame callback `update` of World.prototype.init, with tick = now: the
\* request that fires is the one _frame names or another pending one; an
\* exception in update() leaves the callback before the next request
WorldFrame ==
  /\ world.pending > 0
  /\ \E named \in BOOLEAN : \E h \in Handlers :
       /\ named => world.live
       /\ ~named => world.pending > (IF world.live THEN 1 ELSE 0)
       /\ WorldFramed(WorldUpdate(items, 1, now, DateNow,
                                  [world EXCEPT !.pending = @ - 1,
                                     !.live = IF named THEN FALSE ELSE @],
                                  h, seen))
  /\ UNCHANGED <<state, animations, infinite, running, now, built, last, hist,
                 hung, origin, track, calc, heap, handlers,
                 timeline>>

\* World.prototype.stop, called between frames
WorldStop ==
  /\ world' = WorldCancel(world)
  /\ items' = WorldHalt(items, "stop", DateNow)
  /\ seen' = [seen EXCEPT !.op = "stop", !.halted = TRUE]
  /\ UNCHANGED <<state, animations, infinite, running, now, built, last, hist,
                 hung, origin, track, calc, heap, handlers,
                 timeline>>

\* World.prototype.pause, called between frames
WorldPause ==
  /\ world' = WorldCancel(world)
  /\ items' = WorldHalt(items, "pause", DateNow)
  /\ seen' = [seen EXCEPT !.op = "pause", !.halted = TRUE]
  /\ UNCHANGED <<state, animations, infinite, running, now, built, last, hist,
                 hung, origin, track, calc, heap, handlers,
                 timeline>>

\* World.prototype.resume, called between frames
WorldResume ==
  /\ world.pending < MaxLoops
  /\ items' = [i \in 1..Len(items) |-> ItemResumed(items[i], DateNow)]
  /\ world' = WorldInit(world)
  /\ seen' = [seen EXCEPT !.op = "resume", !.halted = FALSE,
                          !.resumed = TRUE]
  /\ UNCHANGED <<state, animations, infinite, running, now, built, last, hist,
                 hung, origin, track, calc, heap, handlers,
                 timeline>>

\* the queues of the Items of SpecWorld
WorldInputs == {<<MoveX>>, <<MoveX, Late>>}

\* new World(true) has requested its first frame; Items were added and
\* given their queues
InitWorld ==
  /\ Built(<<>>, FALSE)
  /\ origin \in Origins
  /\ \E n \in 1..MaxItems : \E qs \in [1..n -> WorldInputs] :
       items = [i \in 1..n |-> NewItem(qs[i])]
  /\ world = WorldInit(NoWorld)
  /\ timeline = NoTimeline
  /\ seen = NoSeen
  /\ heap = NoHeap
  /\ handlers = NoHandlers
  /\ calc = NoCalc

NextWorld ==
  \/ Advance(WorldEnd)
  \/ WorldFrame
  \/ WorldStop
  \/ WorldPause
  \/ WorldResume

SpecWorld == InitWorld /\ [][NextWorld]_vars

\* C15: after World.stop() or World.pause() has returned, no Item receives
\* update(tick) until resume() is called, also when the call is made from an
\* 'end' handler inside the frame callback.
C15_NoUpdateAfterHalt == ~seen.late

\* C15 for a World on which resume() was never called
NoUpdateAfterHaltUnresumed == ~seen.resumed => ~seen.late

\* C15 for stop() and pause() called between frames of a World on which
\* resume() was never called: there it holds
NoUpdateAfterHaltOutside == (~seen.resumed /\ ~seen.fired) => ~seen.late

----------------------------------------------------------------------------
(* One Animation on its Item: init, transform, end, with the Item's state
   moved by other calls in between *)

\* Item.prototype.translate(t): the state it leaves
ItemTranslate(st, t) ==
  [st EXCEPT !.translate = [i \in 1..3 |-> st.translate[i] + t[i]]]

AnimTransforms ==
  {Transform(<<10 * Unit, 0, 0>>, Null, Null, Null, Null, Null),
   Transform(Null, Null, Null, Some(Unit \div 5), Null, Null),
   Transform(<<0, 2 * Unit, 0>>, <<0, 0, 8 * Unit>>, <<Unit, 0, Unit>>,
             Some(0), Null, Some(1))}

AnimStates ==
  {DefaultState, [DefaultState EXCEPT !.translate = <<5 * Unit, 0, 0>>]}

\* a new Item in some state and a new Animation on it
InitAnim ==
  /\ state \in AnimStates
  /\ \E tr \in AnimTransforms :
       animations = <<NewAnimation(1, tr, Null, Null)>>
  /\ infinite = FALSE
  /\ running = TRUE
  /\ now = 0
  /\ built = <<>>
  /\ last = NoCall
  /\ hist = NoHist
  /\ hung = FALSE
  /\ origin = 0
  /\ track = NoTrack
  /\ NoSched

\* animation.init(tick, force); hist.seen holds the ticks of the init calls
\* made since the construction or the last end(), hist.ends counts the calls
\* that took effect
AnimInitAt(tick, force) ==
  /\ Live
  /\ InitActs(animations[1], force) => hist.ends < MaxInits
  /\ animations' = <<AnimationInit(animations[1], state, tick, force)>>
  /\ last' = [op |-> IF force THEN "force" ELSE "init", arg |-> tick,
              log |-> <<>>, err |-> FALSE]
  /\ hist' = [hist EXCEPT !.seen = @ \cup {tick}, !.tick = -1,
                          !.snap = Null,
                          !.ends = IF InitActs(animations[1], force)
                                   THEN @ + 1 ELSE @]
  /\ UNCHANGED <<state, infinite, running, now, built, hung, origin, track,
                 sched, calc>>

AnimInit ==
  \E tick \in {0, AnimEnd} : \E force \in BOOLEAN : AnimInitAt(tick, force)

\* animation.transform(k / Steps); hist.tick and hist.snap hold the argument
\* of the transform call made just before and the state it started from
AnimTransformAt(k) ==
  /\ Live
  /\ IF TransformThrows(animations[1])
     THEN /\ last' = [op |-> "transform", arg |-> k, log |-> <<>>,
                      err |-> TRUE]
          /\ UNCHANGED <<state, hist>>
     ELSE /\ state' = AnimationTransform(animations[1], state, k, Steps)
          /\ last' = [op |-> "transform", arg |-> k, log |-> <<>>,
                      err |-> FALSE]
          /\ hist' = [hist EXCEPT
                        !.tick = IF last.op = "transform" THEN last.arg ELSE -1,
                        !.snap = Some(state)]
  /\ UNCHANGED <<animations, infinite, running, now, built, hung, origin,
                 track, sched, calc>>

AnimTransform == \E k \in 0..Steps : AnimTransformAt(k)

\* animation.end()
AnimEnds ==
  /\ Live
  /\ LET e == AnimationEnd(animations[1], state, FALSE) IN
       /\ state' = e.st
       /\ animations' = <<e.u>>
       /\ last' = [op |-> "end", arg |-> 0, log |-> <<>>, err |-> e.err]
  /\ hist' = [hist EXCEPT !.seen = {}, !.tick = -1, !.snap = Null]
  /\ UNCHANGED <<infinite, running, now, built, hung, origin, track,
                 sched, calc>>

\* item.translate([0, 1, 0]) by some other code
Nudge ==
  /\ Live
  /\ hist.first < MaxNudge - 1
  /\ state' = ItemTranslate(state, <<0, Unit, 0>>)
  /\ last' = [op |-> "translate", arg |-> 0, log |-> <<>>, err |-> FALSE]
  /\ hist' = [hist EXCEPT !.first = @ + 1, !.tick = -1, !.snap = Null]
  /\ UNCHANGED <<animations, infinite, running, now, built, hung, origin,
                 track, sched, calc>>

NextAnim == AnimInit \/ AnimTransform \/ AnimEnds \/ Nudge

SpecAnim == InitAnim /\ [][NextAnim]_vars

\* C16: transform(1) is additive for vector fields and absolute for opacity:
\* every requested non-zero component ends at initial + delta, a requested
\* opacity ends at the requested value; translate delta [10,0,0] snapshotted
\* at translate [5,0,0] gives [15,0,0] (no other code having moved the Item
\* along the axes the Animation leaves alone), opacity 0.2 snapshotted at 1
\* gives 0.2.
C16_TransformAdditiveAbsolute ==
  [][(AnimTransformAt(Steps) /\ ~last'.err) =>
       LET a == animations[1]
           ini == a.initial[1]
       IN /\ \A f \in {"translate", "rotate", "scale"} : \A i \in 1..3 :
               (a[f] # Null /\ a[f][i] # 0) =>
                 state'[f][i] = ini[f][i] + a[f][i]
          /\ a.opacity # Null => state'.opacity = a.opacity[1]
          /\ (/\ a.translate = <<10 * Unit, 0, 0>>
              /\ ini.translate = <<5 * Unit, 0, 0>>
              /\ \A i \in 2..3 : state.translate[i] = ini.translate[i]) =>
               state'.translate = <<15 * Unit, 0, 0>>
          /\ (a.opacity = Some(Unit \div 5) /\ ini.opacity = Unit) =>
               state'.opacity = Unit \div 5
  ]_vars

\* transform(1) has taken translate [5,0,0] to [15,0,0]
C16_Witness ==
  /\ last.op = "transform" /\ last.arg = Steps /\ ~last.err
  /\ animations[1].translate = <<10 * Unit, 0, 0>>
  /\ animations[1].initial[1].translate = <<5 * Unit, 0, 0>>
  /\ state.translate = <<15 * Unit, 0, 0>>

\* C17: on an initialised Animation, transform(p) called twice with the same
\* p yields the same state both times, and the state after any transform(p)
\* is what transform(p) gives from the state before the previous transform
\* call: it does not depend on what the previous call left.
C17_TransformIdempotent ==
  [][\A k \in 0..Steps :
       (last.op = "transform" /\ ~last.err /\ AnimTransformAt(k)) =>
          /\ last.arg = k => state' = state
          /\ state' = AnimationTransform(animations[1], hist.snap[1], k, Steps)
  ]_vars

\* transform(p) was called twice in a row with the same 0 < p < 1 and has
\* moved the state off the snapshot
C17_Witness ==
  /\ last.op = "transform" /\ ~last.err
  /\ hist.tick = last.arg
  /\ last.arg > 0 /\ last.arg < Steps
  /\ state # animations[1].initial[1]

\* C18: init(tick) without force takes effect once per playthrough: the
\* first call since the construction or the last end() sets start = tick +
\* delay and snapshots the Item's current state; every later unforced call
\* before end() leaves the Animation as it is.
C18_InitOncePerPlaythrough ==
  [][\A tick \in 0..AnimEnd :
       AnimInitAt(tick, FALSE) =>
         IF hist.seen = {}
         THEN /\ animations'[1].start = Some(tick + animations[1].delay)
              /\ animations'[1].initial = Some(state)
         ELSE animations' = animations
  ]_vars

\* a second unforced init with another tick, after the Item's state has
\* changed, has left start and the snapshot alone
C18_Witness ==
  /\ last.op = "init"
  /\ Cardinality(hist.seen) >= 2
  /\ animations[1].start # Some(last.arg + animations[1].delay)
  /\ animations[1].initial # Some(state)

----------------------------------------------------------------------------
(* Calls on an Item whose queue is empty *)

\* C19: animation(tick) of free-running playback, and seek(tick), on an Item
\* whose queue is empty fail with an InvalidState signal instead of
\* returning silently.
C19_EmptyQueueSignals ==
  [][((Tick \/ Seek) /\ animations = <<>>) => last'.err]_vars

\* the seek half of C19, for SpecSeek
EmptyQueueSeekSignals ==
  [][(Seek /\ animations = <<>>) => last'.err]_vars

----------------------------------------------------------------------------
(* Matrix *)

(* A JavaScript number that the Matrix functions compute from integer
   entries is written as a fraction [n, d] with d >= 0.  d > 0 is the finite
   number n / d; d = 0 is a non-finite one: Infinity for n > 0, -Infinity for
   n < 0, NaN for n = 0.  Rounding is not modelled. *)
Num(k) == [n |-> k, d |-> 1]

Finite(x) == x.d # 0

Sign(k) == IF k > 0 THEN 1 ELSE IF k < 0 THEN -1 ELSE 0

\* 1 / k for an integer k: 1 / 0 is Infinity
Reciprocal(k) ==
  IF k > 0 THEN [n |-> 1, d |-> k]
  ELSE IF k < 0 THEN [n |-> -1, d |-> -k]
  ELSE [n |-> 1, d |-> 0]

\* -x
Neg(x) == [n |-> -x.n, d |-> x.d]

\* x * y: 0 * Infinity and NaN * y are NaN
Mul(x, y) ==
  IF Finite(x) /\ Finite(y) THEN [n |-> x.n * y.n, d |-> x.d * y.d]
  ELSE [n |-> Sign(x.n) * Sign(y.n), d |-> 0]

\* x + y: Infinity + -Infinity and NaN + y are NaN
Add(x, y) ==
  IF Finite(x) /\ Finite(y) THEN [n |-> x.n * y.d + y.n * x.d, d |-> x.d * y.d]
  ELSE IF Finite(x) THEN y
  ELSE IF Finite(y) THEN x
  ELSE IF x.n = y.n THEN x
  ELSE [n |-> 0, d |-> 0]

\* m[i] of the source, whose indices begin at 0
At(m, i) == m[i + 1]

\* the determinant of the 3x3 block, as Matrix.inverse computes it
Det(m) ==
  LET inv0 == At(m, 5) * At(m, 10) - At(m, 6) * At(m, 9)
      inv4 == At(m, 4) * At(m, 10) - At(m, 6) * At(m, 8)
      inv8 == At(m, 4) * At(m, 9) - At(m, 5) * At(m, 8)
  IN At(m, 0) * inv0 - At(m, 1) * inv4 + At(m, 2) * inv8

\* Matrix.inverse(m) on a matrix of integers
MatrixInverse(m) ==
  LET inv0 == At(m, 5) * At(m, 10) - At(m, 6) * At(m, 9)
      inv1 == At(m, 1) * At(m, 10) - At(m, 2) * At(m, 9)
      inv2 == At(m, 1) * At(m, 6) - At(m, 2) * At(m, 5)
      inv4 == At(m, 4) * At(m, 10) - At(m, 6) * At(m, 8)
      inv5 == At(m, 0) * At(m, 10) - At(m, 2) * At(m, 8)
      inv6 == At(m, 0) * At(m, 6) - At(m, 2) * At(m, 4)
      inv8 == At(m, 4) * At(m, 9) - At(m, 5) * At(m, 8)
      inv9 == At(m, 0) * At(m, 9) - At(m, 1) * At(m, 8)
      inv10 == At(m, 0) * At(m, 5) - At(m, 1) * At(m, 4)
      det == Reciprocal(At(m, 0) * inv0 - At(m, 1) * inv4 + At(m, 2) * inv8)
      a0 == Mul(det, Num(inv0))
      a1 == Mul(Neg(det), Num(inv1))
      a2 == Mul(det, Num(inv2))
      a4 == Mul(Neg(det), Num(inv4))
      a5 == Mul(det, Num(inv5))
      a6 == Mul(Neg(det), Num(inv6))
      a8 == Mul(det, Num(inv8))
      a9 == Mul(Neg(det), Num(inv9))
      a10 == Mul(det, Num(inv10))
      m12 == Num(At(m, 12))
      m13 == Num(At(m, 13))
      m14 == Num(At(m, 14))
      a12 == Add(Add(Mul(Neg(m12), a0), Neg(Mul(m13, a4))), Neg(Mul(m14, a8)))
      a13 == Add(Add(Mul(Neg(m12), a1), Neg(Mul(m13, a5))), Neg(Mul(m14, a9)))
      a14 == Add(Add(Mul(Neg(m12), a2), Neg(Mul(m13, a6))), Neg(Mul(m14, a10)))
  IN <<a0, a1, a2, Num(0), a4, a5, a6, Num(0), a8, a9, a10, Num(0),
       a12, a13, a14, Num(1)>>

\* Matrix.multiply(a, b) for a matrix a of integers and a matrix b of
\* fractions: the entries the source computes (the others are the identity's)
MatrixMultiply(a, b) ==
  LET P(i, j) == Mul(Num(At(a, i)), At(b, j))
      Row(r, c) == Add(Add(P(r, c), P(r + 1, c + 4)), P(r + 2, c + 8))
  IN <<Row(0, 0), Row(0, 1), Row(0, 2), Num(0),
       Row(4, 0), Row(4, 1), Row(4, 2), Num(0),
       Row(8, 0), Row(8, 1), Row(8, 2), Num(0),
       Add(Row(12, 0), At(b, 12)), Add(Row(12, 1), At(b, 13)),
       Add(Row(12, 2), At(b, 14)), Num(1)>>

\* the rows of the 3x3 block and the translations that SpecMatrix draws from
MatrixRows ==
  {<<1, 0, 0>>, <<0, 1, 0>>, <<0, 0, 1>>, <<0, 0, 0>>, <<1, 1, 0>>,
   <<0, 2, -1>>}

MatrixTranslations == {<<0, 0, 0>>, <<3, 0, -2>>}

\* the 4x4 matrix with rows r1, r2, r3 in its 3x3 block and translation t
MatrixOf(r1, r2, r3, t) ==
  <<r1[1], r1[2], r1[3], 0, r2[1], r2[2], r2[3], 0, r3[1], r3[2], r3[3], 0,
    t[1], t[2], t[3], 1>>

\* some matrix is at hand
InitMatrix ==
  /\ Built(<<>>, FALSE)
  /\ origin = 0
  /\ items = <<>>
  /\ world = NoWorld
  /\ timeline = NoTimeline
  /\ seen = NoSeen
  /\ heap = NoHeap
  /\ handlers = NoHandlers
  /\ \E r1 \in MatrixRows, r2 \in MatrixRows, r3 \in MatrixRows :
       \E t \in MatrixTranslations :
         calc = [op |-> "none", m |-> MatrixOf(r1, r2, r3, t), out |-> <<>>,
                 err |-> FALSE]

\* Matrix.inverse(m): no statement of it throws
Inverse ==
  /\ calc.op = "none"
  /\ calc' = [calc EXCEPT !.op = "inverse", !.out = MatrixInverse(calc.m)]
  /\ UNCHANGED <<state, animations, infinite, running, now, built, last, hist,
                 hung, origin, track, sched>>

SpecMatrix == InitMatrix /\ [][Inverse]_vars

\* C20: Matrix.inverse(m) on a matrix whose 3x3 block has determinant zero
\* fails with an error signal, and no call returns a matrix with a
\* non-finite entry.
C20_InverseSingularFails ==
  calc.op = "inverse" =>
    /\ Det(calc.m) = 0 => calc.err
    /\ ~calc.err => \A i \in 1..16 : Finite(calc.out[i])

\* for a matrix whose 3x3 block has a non-zero determinant, Matrix.inverse
\* returns finite entries, and the matrix times the result is the identity
InverseOfRegular ==
  (calc.op = "inverse" /\ Det(calc.m) # 0) =>
    /\ \A i \in 1..16 : Finite(calc.out[i])
    /\ LET c == MatrixMultiply(calc.m, calc.out)
       IN \A i \in 1..16 :
            c[i].n = (IF i \in {1, 6, 11, 16} THEN c[i].d ELSE 0)

----------------------------------------------------------------------------
(* Matrix.compose and Matrix.decompose *)

(* An angle is a number of degrees, counted in steps of 0.0001 degree.  The
   angles at hand are those whose sine and cosine are fractions over 5:
   0, atan(3/4) = 36.8699, atan(4/3) = 53.1301 degrees and their images in
   the other quadrants.  Math.sin, Math.cos, Math.asin and Math.atan2 are
   read off that table, so every matrix entry is an exact fraction. *)
AngleTable ==
  {[deg |-> 0, s |-> 0, c |-> 5],
   [deg |-> 368699, s |-> 3, c |-> 4], [deg |-> -368699, s |-> -3, c |-> 4],
   [deg |-> 531301, s |-> 4, c |-> 3], [deg |-> -531301, s |-> -4, c |-> 3],
   [deg |-> 900000, s |-> 5, c |-> 0], [deg |-> -900000, s |-> -5, c |-> 0],
   [deg |-> 1268699, s |-> 4, c |-> -3], [deg |-> -1268699, s |-> -4, c |-> -3],
   [deg |-> 1431301, s |-> 3, c |-> -4], [deg |-> -1431301, s |-> -3, c |-> -4],
   [deg |-> 1800000, s |-> 0, c |-> -5]}

\* Math.PI / 2 read as a number of degrees: 1.5708, in steps of 0.0001
HalfPi == 15708

Abs(k) == IF k < 0 THEN -k ELSE k

RECURSIVE Gcd(_, _)
Gcd(a, b) == IF b = 0 THEN a ELSE Gcd(b, a % b)

\* the fraction x in lowest terms
Lowest(x) ==
  IF x.d = 0 THEN x
  ELSE LET g == Gcd(Abs(x.n), x.d) IN [n |-> x.n \div g, d |-> x.d \div g]

\* x * y in lowest terms
Times(x, y) == Lowest(Mul(Lowest(x), Lowest(y)))

\* x + y in lowest terms, over the least common denominator
Plus(x, y) ==
  IF ~Finite(x) \/ ~Finite(y) THEN Add(x, y)
  ELSE LET p == Lowest(x)
           q == Lowest(y)
           g == Gcd(p.d, q.d)
       IN Lowest([n |-> p.n * (q.d \div g) + q.n * (p.d \div g),
                  d |-> (p.d \div g) * q.d])

\* x / y: a finite x over 0 is an infinity, 0 / 0 is NaN
Over(x, y) ==
  IF ~Finite(x) \/ ~Finite(y) THEN [n |-> 0, d |-> 0]
  ELSE IF y.n = 0 THEN [n |-> Sign(x.n), d |-> 0]
  ELSE Lowest([n |-> x.n * y.d * Sign(y.n), d |-> x.d * Abs(y.n)])

\* x === y for finite numbers
Same(x, y) == Finite(x) /\ Finite(y) /\ x.n * y.d = y.n * x.d

\* Math.sqrt(x) for x the square of a fraction
Sqrt(x) ==
  LET q == Lowest(x)
  IN [n |-> CHOOSE r \in 0..q.n : r * r = q.n,
      d |-> CHOOSE r \in 1..q.d : r * r = q.d]

\* Math.sin(a * radians) and Math.cos(a * radians) for a in the table
Sin(a) == [n |-> (CHOOSE e \in AngleTable : e.deg = a).s, d |-> 5]
Cos(a) == [n |-> (CHOOSE e \in AngleTable : e.deg = a).c, d |-> 5]

\* Math.atan2(y, x) / radians: Null when the angle is not in the table
Atan2(y, x) ==
  IF y.n = 0 /\ x.n = 0 THEN Some(0)
  ELSE LET hits == {e \in AngleTable :
                      /\ Sign(e.s) = Sign(y.n)
                      /\ Sign(e.c) = Sign(x.n)
                      /\ y.n * x.d * e.c = x.n * y.d * e.s}
       IN IF hits = {} THEN Null ELSE Some((CHOOSE e \in hits : TRUE).deg)

\* Math.asin(v) / radians: Null when the angle is not in the table
Asin(v) ==
  LET hits == {e \in AngleTable : e.c >= 0 /\ v.n * 5 = e.s * v.d}
  IN IF hits = {} THEN Null ELSE Some((CHOOSE e \in hits : TRUE).deg)

\* Vector.length(x, y, z)
VectorLength(x, y, z) ==
  Sqrt(Plus(Plus(Times(x, x), Times(y, y)), Times(z, z)))

\* Matrix.identity()
MatrixIdentity ==
  <<Num(1), Num(0), Num(0), Num(0), Num(0), Num(1), Num(0), Num(0),
    Num(0), Num(0), Num(1), Num(0), Num(0), Num(0), Num(0), Num(1)>>

\* Matrix.rotate(ax, ay, az), the angles in degrees
MatrixRotate(ax, ay, az) ==
  IF ax = 0 /\ ay = 0 /\ az = 0 THEN MatrixIdentity
  ELSE LET sx == Sin(ax)
           cx == Cos(ax)
           sy == Sin(ay)
           cy == Cos(ay)
           sz == Sin(az)
           cz == Cos(az)
       IN <<Times(cy, cz),
            Plus(Times(cx, sz), Times(Times(sx, sy), cz)),
            Plus(Times(sx, sz), Neg(Times(Times(cx, sy), cz))),
            Num(0),
            Times(Neg(cy), sz),
            Plus(Times(cx, cz), Neg(Times(Times(sx, sy), sz))),
            Plus(Times(sx, cz), Times(Times(cx, sy), sz)),
            Num(0),
            sy,
            Times(Neg(sx), cy),
            Times(cx, cy),
            Num(0), Num(0), Num(0), Num(0), Num(1)>>

\* Matrix.compose(translate, rotate, scale), all three given
MatrixCompose(translate, rotate, scale) ==
  LET a == MatrixRotate(rotate[1], rotate[2], rotate[3])
  IN [i \in 1..16 |->
        IF i \in 1..3 THEN Times(a[i], scale[1])
        ELSE IF i \in 5..7 THEN Times(a[i], scale[2])
        ELSE IF i \in 9..11 THEN Times(a[i], scale[3])
        ELSE IF i \in 13..15 THEN Num(translate[i - 12])
        ELSE a[i]]

\* k * a for k = 1 or -1 and an angle a that may be outside the table
Turned(k, a) == IF a = Null THEN Null ELSE Some(k * a[1])

\* Matrix.decompose(m)
MatrixDecompose(m) ==
  LET sX == VectorLength(At(m, 0), At(m, 1), At(m, 2))
      sY == VectorLength(At(m, 4), At(m, 5), At(m, 6))
      sZ == VectorLength(At(m, 8), At(m, 9), At(m, 10))
      m4 == IF Same(At(m, 4), Num(1)) THEN 1
            ELSE IF Same(At(m, 4), Num(-1)) THEN -1 ELSE 0
  IN [translate |-> <<At(m, 12), At(m, 13), At(m, 14)>>,
      rotate |->
        IF m4 # 0
        THEN <<Some(0), Some(m4 * (-HalfPi)),
               Turned(m4, Atan2(Over(At(m, 6), sY), Over(At(m, 5), sY)))>>
        ELSE <<Atan2(Over(Neg(At(m, 9)), sZ), Over(At(m, 10), sZ)),
               Asin(Over(At(m, 8), sZ)),
               Atan2(Over(Neg(At(m, 4)), sY), Over(At(m, 0), sX))>>,
      scale |-> <<sX, sY, sZ>>]

\* the angles strictly between -90 and 90 degrees, the scales > 0 and the
\* translations that SpecCompose draws from
ComposeAngles == {e.deg : e \in {e \in AngleTable : e.c > 0}}

ComposeScales ==
  {<<Num(1), Num(1), Num(1)>>,
   <<Num(2), [n |-> 5, d |-> 3], [n |-> 1, d |-> 2]>>,
   <<[n |-> 1, d |-> 2], [n |-> 5, d |-> 4], Num(3)>>,
   <<Num(3), Num(2), [n |-> 5, d |-> 3]>>}

ComposeTranslations == {<<0, 0, 0>>, <<3, 0, -2>>}

\* some translate, rotate and scale are at hand
InitCompose ==
  /\ Built(<<>>, FALSE)
  /\ origin = 0
  /\ items = <<>>
  /\ world = NoWorld
  /\ timeline = NoTimeline
  /\ seen = NoSeen
  /\ heap = NoHeap
  /\ handlers = NoHandlers
  /\ \E t \in ComposeTranslations, s \in ComposeScales :
       \E rx \in ComposeAngles, ry \in ComposeAngles, rz \in ComposeAngles :
         calc = [op |-> "none",
                 m |-> [translate |-> t, rotate |-> <<rx, ry, rz>>,
                        scale |-> s],
                 out |-> <<>>, err |-> FALSE]

\* Matrix.decompose(Matrix.compose(translate, rotate, scale))
Decompose ==
  /\ calc.op = "none"
  /\ calc' = [calc EXCEPT
                !.op = "decompose",
                !.out = MatrixDecompose(MatrixCompose(calc.m.translate,
                                                      calc.m.rotate,
                                                      calc.m.scale))]
  /\ UNCHANGED <<state, animations, infinite, running, now, built, last, hist,
                 hung, origin, track, sched>>

SpecCompose == InitCompose /\ [][Decompose]_vars

\* the result of decompose is the translate, rotate and scale that compose
\* was given: the angles within 0.0001 degree, the rest exactly
RoundTrip ==
  /\ \A i \in 1..3 : Same(calc.out.translate[i], Num(calc.m.translate[i]))
  /\ \A i \in 1..3 : Same(calc.out.scale[i], calc.m.scale[i])
  /\ \A i \in 1..3 :
       /\ calc.out.rotate[i] # Null
       /\ calc.out.rotate[i][1] - calc.m.rotate[i] \in -1..1

\* C21: for every translate, every rotate with each angle strictly between
\* -90 and 90 degrees and every scale with all components > 0,
\* decompose(compose(t, r, s)) returns (t, r, s) within 1e-4 per component,
\* the angles in degrees.
C21_DecomposeInvertsCompose == calc.op = "decompose" => RoundTrip

\* the same for the inputs whose composed matrix has neither 1 nor -1 at
\* index 4, the entry -cos(ry) * sin(rz) * scale[1]
DecomposeInvertsComposeOffUnit ==
  LET m4 == At(MatrixCompose(calc.m.translate, calc.m.rotate, calc.m.scale), 4)
  IN (calc.op = "decompose" /\ ~Same(m4, Num(1)) /\ ~Same(m4, Num(-1)))
       => RoundTrip

----------------------------------------------------------------------------
(* Free-running queues that hold sets of parallel animations: a new Item
   with a built queue, never paused, not infinite *)

GroupInputs == {MoveX, Both, Trail, Stagger}

InitGroup ==
  /\ \E ins \in InputSeqs(GroupInputs, GroupQueue) : Built(ins, FALSE)
  /\ origin = 0
  /\ NoSched

NextGroup == Advance(GroupEnd) \/ Deliver

SpecGroup == InitGroup /\ [][NextGroup]_vars

\* the largest delay + duration among the children of the set that
\* animate() built as unit g
Longest(g) ==
  MaxOf([k \in 1..Len(built[g].animations) |->
           built[g].animations[k].delay + built[g].animations[k].duration])

Logged(log, what, g) == \E k \in 1..Len(log) : log[k] = <<what, g>>

\* C22: a set of parallel animations at the head of a never-paused
\* free-running queue is ended and popped by the first animation(tick) with
\* tick >= groupStart + max over its children of (delay + duration), and by
\* no earlier one; groupStart is the tick of the call that initialised the
\* set, and it stays the set's start while the set is the head.
C22_GroupEndsAtLongestChild ==
  [][Deliver =>
       \A i \in 1..Len(animations) :
         LET p == animations[i]
             started == Logged(last'.log, "init", p.id)
             ended == Logged(last'.log, "end", p.id)
             groupStart == IF p.start = Null THEN now ELSE p.start[1]
         IN (p.kind = "P" /\ (i = 1 \/ started)) =>
              /\ started <=> p.start = Null
              /\ ended <=> now >= groupStart + Longest(p.id)
              /\ ended => \A j \in 1..Len(animations') :
                            animations'[j].id # p.id
              /\ ~ended => /\ animations'[1].id = p.id
                           /\ animations'[1].start = Some(groupStart)]_vars

\* a call has ended a set that an earlier call had left running
C22_Witness ==
  /\ last.op = "animation"
  /\ hist.first >= 0
  /\ hist.first < last.arg
  /\ \E g \in 1..Len(built) :
       /\ built[g].kind = "P"
       /\ Logged(last.log, "end", g)
       /\ ~Logged(last.log, "init", g)
       /\ \E k \in 1..Len(built[g].animations) :
            built[g].animations[k].delay > 0

----------------------------------------------------------------------------
(* Construction of a set of parallel animations: a new Item and one
   animate() call on an array of two transforms *)

\* what a child declares, and what the animate() call passes for the set
ChildDurations == {Null, Some(1), Some(2)}
ChildDelays == {Null, Some(0), Some(1)}
SetDurations == {Null, Some(3)}
SetDelays == {Null, Some(2)}

\* item.animate([a1, a2], duration, ease, delay); last.arg keeps the arguments
AnimateSet ==
  /\ Live
  /\ built = <<>>
  /\ \E d1 \in ChildDurations, d2 \in ChildDurations :
       \E l1 \in ChildDelays, l2 \in ChildDelays :
         \E dur \in SetDurations, del \in SetDelays :
           LET input == Group(<<Transform(<<Unit, 0, 0>>, Null, Null, Null,
                                          d1, l1),
                                Transform(Null, <<0, 0, Unit>>, Null, Null,
                                          d2, l2)>>, dur, del)
               u == ItemAnimate(1, input)
           IN /\ animations' = Append(animations, u)
              /\ built' = Append(built, u)
              /\ last' = [op |-> "animate", arg |-> input, log |-> <<>>,
                          err |-> FALSE]
  /\ UNCHANGED <<state, infinite, running, now, hist, hung>>
  /\ UNCHANGED <<origin, track, sched, calc>>

SpecSet == Init /\ [][AnimateSet]_vars

\* the child's own value when it declares one, else the set's, else dflt
Resolved(own, group, dflt) ==
  IF own # Null THEN own[1] ELSE IF group # Null THEN group[1] ELSE dflt

\* every child of the set built last has the duration and delay that
\* its declaration and the set's arguments resolve to
ChildrenResolved ==
  \A k \in 1..Len(built[1].animations) :
    /\ built[1].animations[k].duration =
         Resolved(last.arg.transform[k].duration, last.arg.duration,
                  DefaultDuration)
    /\ built[1].animations[k].delay =
         Resolved(last.arg.transform[k].delay, last.arg.delay, 0)

\* C23: in a set of parallel animations each child's effective duration and
\* delay is the child's own declared value whenever the child declares one,
\* a declared delay of 0 included, and the default passed for the set
\* otherwise.
C23_ChildValueElseGroupDefault == last.op = "animate" => ChildrenResolved

\* the same for the sets none of whose children declares a delay of 0
ChildValueElseGroupDefaultNonZero ==
  (/\ last.op = "animate"
   /\ \A k \in 1..Len(last.arg.transform) :
        last.arg.transform[k].delay # Some(0))
    => ChildrenResolved

----------------------------------------------------------------------------
(* Two Items and the arrays their states refer to *)

(* Item.state holds three arrays and a number.  heap.at[i][f] names the array
   that state[f] of Item i refers to: a new Item i owns array i of each
   field, and 0 names the array v that the caller of the library holds.
   items[i].state keeps the content, so two Items that refer to one array
   always show the same content for that field. *)
Fields == {"translate", "rotate", "scale"}

OwnArrays(i) == [translate |-> i, rotate |-> i, scale |-> i]

Other(i) == 3 - i

\* the Items and v after Item i wrote the state st into its arrays in
\* place: every Item that refers to one of those arrays shows the new content
Written(its, hp, i, st) ==
  LET Shown(j, f) ==
        IF j = i \/ hp.at[j][f] = hp.at[i][f] THEN st[f] ELSE its[j].state[f]
  IN [items |->
        [j \in 1..Len(its) |->
           [its[j] EXCEPT !.state =
              [translate |-> Shown(j, "translate"),
               rotate |-> Shown(j, "rotate"),
               scale |-> Shown(j, "scale"),
               opacity |-> IF j = i THEN st.opacity ELSE @.opacity]]],
      v |-> IF hp.at[i].translate = 0 THEN st.translate ELSE hp.v]

\* the record of a call on one of the two Items: the number of calls made
\* so far and whether this one threw
PairCalled(r) == [NoCall EXCEPT !.op = "call", !.arg = last.arg + 1,
                                !.err = r.err]

\* the caller goes on to another call
PairLive == Live /\ last.arg < MaxCalls

\* the call on Item i with outcome r wrote r.state in place
WrittenBy(i, r) ==
  LET w == Written(items, heap, i, r.state)
  IN /\ items' = [w.items EXCEPT ![i].animations = r.animations]
     /\ heap' = [heap EXCEPT !.v = w.v]
     /\ last' = PairCalled(r)

PairRest ==
  UNCHANGED <<state, animations, infinite, running, now, built, hist, hung,
              origin, track, calc, world, timeline, seen, handlers>>

\* item.set('translate', a): the state refers to the array a from then on;
\* a is the caller's array v or the array another Item's state refers to
PairSet(i) ==
  /\ PairLive
  /\ \E a \in {0, heap.at[Other(i)].translate} :
       /\ heap' = [heap EXCEPT !.at[i].translate = a]
       /\ items' = [items EXCEPT ![i].state.translate =
                      IF a = 0 THEN heap.v
                      ELSE items[Other(i)].state.translate]
  /\ last' = PairCalled([err |-> FALSE])
  /\ PairRest

\* item.translate([1, 0, 0]): Item.prototype.add writes into the array
PairAdd(i) ==
  /\ PairLive
  /\ items[i].state.translate[1] < MaxShift * Unit
  /\ WrittenBy(i,
               [state |-> ItemTranslate(items[i].state, <<Unit, 0, 0>>),
                animations |-> items[i].animations, log |-> <<>>,
                err |-> FALSE])
  /\ PairRest

\* the arrays that clear() creates for Item i: new ones, named by the
\* smallest names that no other Item refers to
NewArrays(i) ==
  [f \in Fields |->
     CHOOSE a \in 1..2 : a # heap.at[Other(i)][f]]

\* item.clear(): the state refers to three new arrays
PairClear(i) ==
  /\ PairLive
  /\ heap' = [heap EXCEPT !.at[i] = NewArrays(i)]
  /\ items' = [items EXCEPT ![i].state = ItemClear(@)]
  /\ last' = PairCalled([err |-> FALSE])
  /\ PairRest

\* item.animate(...)
PairAnimate(i) ==
  /\ PairLive
  /\ items[i].animations = <<>>
  /\ items[i].state.translate[1] < MaxShift * Unit
  /\ items' = [items EXCEPT ![i].animations = <<ItemAnimate(1, MoveX)>>]
  /\ last' = PairCalled([err |-> FALSE])
  /\ UNCHANGED heap
  /\ PairRest

\* item.animation(now): Animation.prototype.set writes into the arrays
PairTick(i) ==
  /\ PairLive
  /\ WrittenBy(i,
               ItemAnimation(items[i].animations, items[i].state,
                             items[i].running, items[i].infinite, now))
  /\ PairRest

\* item.seek(now): clear(), when the queue is not empty, then writes in place
PairSeek(i) ==
  /\ PairLive
  /\ LET r == ItemSeek(items[i].animations, items[i].state, now)
     IN /\ heap' = IF items[i].animations = <<>> THEN heap
                   ELSE [heap EXCEPT !.at[i] = NewArrays(i)]
        /\ items' = IF items[i].animations = <<>> THEN items
                    ELSE [items EXCEPT ![i].state = r.state,
                                       ![i].animations = r.animations]
        /\ last' = PairCalled(r)
  /\ PairRest

\* item.finish(): every end() writes into the arrays
PairFinish(i) ==
  /\ PairLive
  /\ WrittenBy(i,
               ItemFinish(items[i].animations, items[i].state,
                          items[i].infinite, FALSE))
  /\ PairRest

\* two new Items; the caller holds an array v
InitPair ==
  /\ Built(<<>>, FALSE)
  /\ origin = 0
  /\ items = <<NewItem(<<>>), NewItem(<<>>)>>
  /\ heap = [at |-> <<OwnArrays(1), OwnArrays(2)>>, v |-> <<Unit, 0, 0>>]
  /\ handlers = NoHandlers
  /\ world = NoWorld
  /\ timeline = NoTimeline
  /\ seen = NoSeen
  /\ calc = NoCalc

NextPair ==
  \/ Advance(PairEnd)
  \/ \E i \in 1..2 :
       \/ PairSet(i)
       \/ PairAdd(i)
       \/ PairClear(i)
       \/ PairAnimate(i)
       \/ PairTick(i)
       \/ PairSeek(i)
       \/ PairFinish(i)

SpecPair == InitPair /\ [][NextPair]_vars

\* the step is a call on Item i
CallOn(i) ==
  \/ PairSet(i)
  \/ PairAdd(i)
  \/ PairClear(i)
  \/ PairAnimate(i)
  \/ PairTick(i)
  \/ PairSeek(i)
  \/ PairFinish(i)

\* C24: Items are isolated: a public operation (set, translate, animate,
\* animation(tick), seek, clear, finish) applied to one of two distinct
\* Items leaves the other Item's TransformState unchanged.
C24_ItemsIsolated ==
  [][\A i \in 1..2 :
       CallOn(i) => items'[Other(i)].state = items[Other(i)].state]_vars

\* the same for the calls made while the two states refer to no common array
ItemsIsolatedUnshared ==
  [][\A i \in 1..2 :
       (CallOn(i) /\ \A f \in Fields : heap.at[1][f] # heap.at[2][f])
         => items'[Other(i)].state = items[Other(i)].state]_vars

----------------------------------------------------------------------------
(* Construction of an Animation: a new Item and one animate() call *)

\* the durations given: missing, zero, negative, positive, non-numeric
GivenDurations == {Null, Some(0), Some(-2), Some(3), NotNumeric}

\* the delays given
GivenDelays == {Null, Some(0), Some(1), NotNumeric}

\* item.animate(transform, duration, ease, delay); last.arg keeps the
\* arguments
AnimateWith ==
  /\ Live
  /\ built = <<>>
  /\ \E d1 \in GivenDurations, d2 \in GivenDurations :
       \E l1 \in GivenDelays, l2 \in GivenDelays :
         LET input == [array |-> FALSE,
                       transform |-> Transform(<<Unit, 0, 0>>, Null, Null,
                                               Null, d1, l1),
                       duration |-> d2, delay |-> l2]
             u == ItemAnimate(1, input)
         IN /\ animations' = Append(animations, u)
            /\ built' = Append(built, u)
            /\ last' = [op |-> "animate", arg |-> input, log |-> <<>>,
                        err |-> FALSE]
  /\ UNCHANGED <<state, infinite, running, now, hist, hung>>
  /\ UNCHANGED <<origin, track, sched, calc>>

SpecDuration == Init /\ [][AnimateWith]_vars

\* the duration given to the constructor: transform.duration, else the
\* duration argument
GivenDuration == JsOr(last.arg.transform.duration, last.arg.duration)

\* the constructed duration is >= 0, and the default when the given one is
\* missing, zero or not a number
DurationCoerced ==
  /\ built[1].duration >= 0
  /\ GivenDuration \in {Null, Some(0), NotNumeric}
       => built[1].duration = DefaultDuration

\* C25: for every duration given at construction (positive, zero, negative,
\* missing or non-numeric) the Animation's duration is an integer >= 0, and
\* it is 500 whenever the input is zero or invalid.
C25_DurationCoerced == last.op = "animate" => DurationCoerced

\* the same for the durations given that are not negative numbers
DurationCoercedFromNonNegative ==
  (/\ last.op = "animate"
   /\ GivenDuration \in {Null, NotNumeric} \/ GivenDuration[1] >= 0)
    => DurationCoerced

----------------------------------------------------------------------------
(* A new Item with a built queue of Animations, driven by animation(tick)
   and seek(tick) calls at the host's clock *)

\* item.seek(now)
SeekNow == SeekTo(now)

InitCall ==
  /\ \E ins \in InputSeqs(RunInputs, CallQueue) : Built(ins, FALSE)
  /\ origin = 0
  /\ NoSched

NextCall == Advance(CallEnd) \/ Deliver \/ SeekNow

SpecCall == InitCall /\ [][NextCall]_vars

\* the units that wrote to the state in the last call, which was
\* animation(tick) or seek(tick) on a queue of Animations: every unit that
\* was ended (end() calls transform(1)), and the unit that was run unless
\* the tick was before its start.  In both calls the unit that was run is
\* built[n + 1] when n units were ended and no unit had left the queue
\* before.
Writers ==
  {last.log[k][2] : k \in {k \in 1..Len(last.log) : last.log[k][1] = "end"}}
    \cup
  {last.log[k][2] :
     k \in {k \in 1..Len(last.log) :
              /\ last.log[k][1] = "run"
              /\ \E j \in 1..Len(animations) :
                   /\ animations[j].id = last.log[k][2]
                   /\ last.arg >= ToNumber(animations[j].start)}}

\* C26: within one animation(tick) call or one seek(tick) call at most one
\* queue unit of the Item writes to the Item's state.
C26_OneWriterPerCall ==
  last.op \in {"animation", "seek"} => Cardinality(Writers) <= 1

\* C26 as the code has it: within one animation(tick) call or one
\* seek(tick) call at most one queue unit is run (interpolated), and it is
\* the last unit the call touches; every other unit that writes to the state
\* in the call is a unit that the call ends, and the units write one after
\* another in queue order.
C26_OneRunPerCall ==
  last.op \in {"animation", "seek"} =>
    \A k \in 1..Len(last.log) :
      /\ last.log[k][1] = "run" => k = Len(last.log)
      /\ \A l \in (k + 1)..Len(last.log) :
           (last.log[k][1] = "end" /\ last.log[l][1] \in {"end", "run"})
             => last.log[k][2] < last.log[l][2]

\* a call has ended a unit and has run the next one at or after its start:
\* two units wrote to the state
C26_Witness ==
  /\ last.op \in {"animation", "seek"}
  /\ ~last.err
  /\ Cardinality(Writers) >= 2
  /\ \E k \in 1..Len(last.log) : last.log[k][1] = "run"

----------------------------------------------------------------------------
(* Termination of animation(tick) *)

\* C27: every call of Item.animation(tick) terminates after finitely many
\* loop iterations, for every reachable queue, those with infinite set and
\* those whose head is a set of parallel animations that has ended once
\* included.
C27_AnimationTerminates == ~hung

\* a call that never returns is a call on an infinite queue that holds a
\* set of parallel animations
AnimationTerminatesWithoutSets ==
  hung => (infinite /\ \E i \in 1..Len(animations) : animations[i].kind = "P")

----------------------------------------------------------------------------
(* The state of a unit after end() *)

\* the last thing that the last call did to unit g was to end it
EndedLast(g) ==
  \E k \in 1..Len(last.log) :
    /\ last.log[k] = <<"end", g>>
    /\ \A l \in (k + 1)..Len(last.log) : last.log[l][2] # g

\* C28: after end() on any queue unit, a single Animation or a set of
\* parallel animations, the unit is unstarted again (start = null), so that
\* the next unforced init(tick) anchors it at the new tick.
C28_EndedUnitUnstarted ==
  (last.op = "animation" /\ ~last.err) =>
    \A i \in 1..Len(animations) :
      EndedLast(animations[i].id) => animations[i].start = Null

\* the same for the units that are single Animations
EndedAnimationUnstarted ==
  (last.op = "animation" /\ ~last.err) =>
    \A i \in 1..Len(animations) :
      (animations[i].kind = "A" /\ EndedLast(animations[i].id))
        => animations[i].start = Null

\* some call has ended a single Animation that stays in the queue
EndedAnimationSeen ==
  /\ last.op = "animation" /\ ~last.err
  /\ \E i \in 1..Len(animations) :
       animations[i].kind = "A" /\ EndedLast(animations[i].id)

----------------------------------------------------------------------------
(* The progress handed to the easing function *)

\* the call has run the unit that was and stays the head, without ending it
HeadRun ==
  /\ Deliver
  /\ animations # <<>>
  /\ animations[1].start # Null
  /\ Logged(last'.log, "run", animations[1].id)
  /\ ~Logged(last'.log, "end", animations[1].id)

\* child a of the head is still a child of the head after the call: run()
\* of the set has run it and has not ended it
StillChild(a) ==
  \E k \in 1..Len(animations'[1].animations) :
    animations'[1].animations[k].id = a.id

\* C29: whenever Animation.run(tick) interpolates, for a queue head or for a
\* child of a set of parallel animations, start <= tick < start + duration,
\* so the raw progress (tick - start) / duration is in [0, 1); a unit or
\* child whose window has elapsed is ended and is never run.
C29_ProgressBelowOne ==
  [][HeadRun =>
       IF animations[1].kind = "A"
       THEN animations[1].start[1] <= now
              => now < animations[1].start[1] + animations[1].duration
       ELSE \A k \in 1..Len(animations[1].animations) :
              LET a == animations[1].animations[k]
              IN /\ (a.start[1] <= now /\ StillChild(a))
                      => now < a.start[1] + a.duration
                 /\ a.start[1] + a.duration <= now => ~StillChild(a)]_vars

\* the same for the heads that are single Animations and for the children
\* that have no delay
ProgressBelowOneUndelayed ==
  [][HeadRun =>
       IF animations[1].kind = "A"
       THEN animations[1].start[1] <= now
              => now < animations[1].start[1] + animations[1].duration
       ELSE \A k \in 1..Len(animations[1].animations) :
              LET a == animations[1].animations[k]
              IN a.delay = 0 =>
                   /\ (a.start[1] <= now /\ StillChild(a))
                        => now < a.start[1] + a.duration
                   /\ a.start[1] + a.duration <= now => ~StillChild(a)]_vars

----------------------------------------------------------------------------
(* The axes that an Animation requests with a zero delta *)

\* the Animation requests the vector field f with a non-zero component
RequestsField(a, f) == a[f] # Null /\ \E j \in 1..3 : a[f][j] # 0

\* C30: after transform(p), for each vector field (translate, rotate, scale)
\* that the Animation requests with at least one non-zero component, every
\* axis i of the Item's state equals initial[field][i] + requested[field][i]
\* * p, the axes whose requested delta is 0 included: those equal the
\* initial snapshot.
C30_EveryAxisFromSnapshot ==
  [][\A k \in 0..Steps :
       (AnimTransformAt(k) /\ ~last'.err) =>
         LET a == animations[1]
             ini == a.initial[1]
         IN \A f \in Fields :
              RequestsField(a, f) =>
                \A i \in 1..3 :
                  state'[f][i] = ini[f][i] + ((a[f][i] * k) \div Steps)
  ]_vars

\* the same when no other code has moved the Item, since the snapshot, along
\* the axes that the Animation requests with a zero delta
EveryAxisFromSnapshotUnmoved ==
  [][\A k \in 0..Steps :
       (AnimTransformAt(k) /\ ~last'.err) =>
         LET a == animations[1]
             ini == a.initial[1]
         IN \A f \in Fields :
              (/\ RequestsField(a, f)
               /\ \A i \in 1..3 : a[f][i] = 0 => state[f][i] = ini[f][i]) =>
                \A i \in 1..3 :
                  state'[f][i] = ini[f][i] + ((a[f][i] * k) \div Steps)
  ]_vars

----------------------------------------------------------------------------
(* Pausing a set of parallel animations: a new Item with a queue of
   Animations and sets, played, paused and resumed at any times *)

HoldInputs == {MoveX, Both, Stagger}

InitHold ==
  /\ \E ins \in InputSeqs(HoldInputs, 2) : Built(ins, FALSE)
  /\ origin \in Origins
  /\ NoSched

\* history after animation(t) returned with outcome r: when the call
\* initialised the unit that is now the head, its playthrough begins at t
TrackedUnit(tr, t, r) ==
  IF /\ r.animations # <<>>
     /\ \E k \in 1..Len(r.log) : r.log[k] = <<"init", r.animations[1].id>>
  THEN [id |-> r.animations[1].id, init |-> t, paused |-> 0, at |-> 0,
        offset |-> 0]
  ELSE tr

\* one frame: item.animation(now), the playthrough of the head remembered
DeliverUnit ==
  /\ Live
  /\ LET r == ItemAnimation(animations, state, running, infinite, now) IN
       IF r.hung
       THEN /\ hung' = TRUE
            /\ UNCHANGED <<state, animations, last, track>>
       ELSE /\ state' = r.state
            /\ animations' = r.animations
            /\ last' = Called("animation", now, r)
            /\ track' = TrackedUnit(track, now, r)
            /\ hung' = FALSE
  /\ UNCHANGED <<infinite, running, now, built, hist, origin, sched, calc>>

NextHold == Advance(HoldEnd) \/ DeliverUnit \/ Pause \/ Resume

SpecHold == InitHold /\ [][NextHold]_vars

\* the head is a set of parallel animations whose initialisation by
\* animation(tick) and whose pauses since are on record
SetTracked ==
  /\ track.id # 0
  /\ animations # <<>>
  /\ animations[1].kind = "P"
  /\ animations[1].id = track.id
  /\ animations[1].start # Null

\* the call ends child c of the head p: run() of the set drops it, or the
\* set itself is ended
ChildEnded(p, c) ==
  \/ Logged(last'.log, "end", p.id)
  \/ /\ animations' # <<>>
     /\ animations'[1].id = p.id
     /\ \A k \in 1..Len(animations'[1].animations) :
          animations'[1].animations[k].id # c.id

\* C31: when the Item is paused for a span of length L while a set of
\* parallel animations is the head, the set is ended and popped L later than
\* without the pause, that is by the first animation(tick) whose unpaused
\* time since the initialisation reaches the duration of the set, and no
\* child is ended before its own delay + duration of unpaused time has
\* elapsed.
C31_SetPauseShiftsEnd ==
  [][(DeliverUnit /\ running /\ SetTracked) =>
       LET p == animations[1]
           unpaused == now - track.init - track.paused
       IN /\ Logged(last'.log, "end", p.id) <=> unpaused >= p.duration
          /\ \A k \in 1..Len(p.animations) :
               ChildEnded(p, p.animations[k]) =>
                 unpaused >= p.animations[k].delay + p.animations[k].duration
  ]_vars

\* the same for the sets that have not been paused for any length of time
SetEndsAtDurationUnpaused ==
  [][(DeliverUnit /\ running /\ SetTracked /\ track.paused = 0) =>
       LET p == animations[1]
           unpaused == now - track.init
       IN /\ Logged(last'.log, "end", p.id) <=> unpaused >= p.duration
          /\ \A k \in 1..Len(p.animations) :
               ChildEnded(p, p.animations[k]) =>
                 unpaused >= p.animations[k].delay + p.animations[k].duration
  ]_vars

----------------------------------------------------------------------------
(* Pausing before the head has been initialised *)

\* unit u of a queue that is not infinite has never been initialised
NeverInitialised(u) ==
  IF u.kind = "A" THEN u.initial = Null ELSE u.start = Null

\* Animation a is as init(tick) leaves it on an Item whose state is st
InitialisedAt(a, tick, st) ==
  a.start = Some(tick + a.delay) /\ a.initial = Some(st)

\* unit u is as init(tick) leaves it on an Item whose state is st; of a set
\* of parallel animations, the children that are in the set
UnitInitialisedAt(u, tick, st) ==
  IF u.kind = "A" THEN InitialisedAt(u, tick, st)
  ELSE /\ u.start = Some(tick)
       /\ \A k \in 1..Len(u.animations) :
            InitialisedAt(u.animations[k], tick, st)

\* the call initialises the head before it does anything else, it does not
\* throw, and a head that stays the head is initialised at the tick of the
\* call from the state before the call
HeadInitialisedFirst ==
  /\ ~last'.err
  /\ last'.log # <<>>
  /\ last'.log[1] = <<"init", animations[1].id>>
  /\ (animations' # <<>> /\ animations'[1].id = animations[1].id
        /\ Len(last'.log) = 2 /\ last'.log[2][1] = "run")
       => \E u \in {UnitInit(animations[1], state, now, FALSE)} :
            /\ UnitInitialisedAt(u, now, state)
            /\ animations'[1].start = u.start
            /\ animations[1].kind = "A" => animations'[1].initial = u.initial

\* C32: when pause() and then resume() are called while the queue head has
\* not been initialised (start = null), the head is still unstarted after
\* the resume, and the first animation(tick) after the resume initialises it
\* (start = tick + delay, initial snapshot taken) before it ends or runs it.
C32_UnstartedHeadSurvivesPause ==
  [][/\ (Resume /\ animations # <<>> /\ animations[1].start = Null)
          => animations'[1].start = Null
     /\ (DeliverUnit /\ last.op = "resume" /\ animations # <<>>
           /\ NeverInitialised(animations[1]))
          => HeadInitialisedFirst
  ]_vars

\* the same for a head that no pause() has touched: every start is null
UnstartedHeadInitialised ==
  [][(DeliverUnit /\ running /\ animations # <<>>
        /\ animations[1].start = Null
        /\ (animations[1].kind = "P" =>
              \A k \in 1..Len(animations[1].animations) :
                animations[1].animations[k].start = Null))
       => HeadInitialisedFirst
  ]_vars

----------------------------------------------------------------------------
(* A paused Item: animation(tick) at any tick, pause() and resume() called
   in any order *)

IdleInputs == {MoveX, Late, Both}

InitIdle ==
  /\ \E ins \in InputSeqs(IdleInputs, 2) : Built(ins, FALSE)
  /\ origin \in Origins
  /\ NoSched

\* item.animation(tick) with any tick
PlayAny ==
  /\ \E t \in 0..IdleEnd : Play(t, FALSE)
  /\ UNCHANGED now

\* item.pause(), running or not; the record of the call notes with 1 that
\* the Item was paused already
PauseCall ==
  /\ Live
  /\ LET r == ItemPauseCall(animations, running, DateNow) IN
       /\ animations' = r.animations
       /\ running' = r.running
  /\ last' = Called("pause", IF running THEN 0 ELSE 1,
                    [log |-> <<>>, err |-> FALSE])
  /\ UNCHANGED <<state, infinite, now, built, hist, hung, origin, track,
                 sched, calc>>

\* item.resume(), paused or not; the record of the call notes with 1 that
\* the Item was running already
ResumeCall ==
  /\ Live
  /\ LET r == ItemResumeCall(animations, running, DateNow) IN
       /\ animations' = r.animations
       /\ running' = r.running
  /\ last' = Called("resume", IF running THEN 1 ELSE 0,
                    [log |-> <<>>, err |-> FALSE])
  /\ UNCHANGED <<state, infinite, now, built, hist, hung, origin, track,
                 sched, calc>>

NextIdle == Advance(IdleEnd) \/ PlayAny \/ PauseCall \/ ResumeCall

SpecIdle == InitIdle /\ [][NextIdle]_vars

\* C33: while the Item is paused (running = false), animation(tick) for any
\* tick leaves the state, the queue and every unit's start and initial
\* snapshot as they are; pause() on a paused Item and resume() on a running
\* Item change nothing.
C33_PausedItemIdle ==
  [][/\ (PlayAny /\ ~running)
          => UNCHANGED <<state, animations, infinite, running>>
     /\ (PauseCall /\ ~running)
          => UNCHANGED <<state, animations, infinite, running>>
     /\ (ResumeCall /\ running)
          => UNCHANGED <<state, animations, infinite, running>>
  ]_vars

\* a paused Item whose head is initialised was handed a tick at which that
\* head is due to end
C33_Witness ==
  /\ ~running
  /\ last.op = "animation"
  /\ animations # <<>>
  /\ animations[1].kind = "A"
  /\ animations[1].start # Null
  /\ animations[1].initial # Null
  /\ animations[1].start[1] + animations[1].duration <= last.arg

\* pause() was called on a paused Item whose head is initialised
PausedTwice ==
  /\ ~running
  /\ last.op = "pause" /\ last.arg = 1
  /\ animations # <<>> /\ animations[1].start # Null

----------------------------------------------------------------------------
(* The frame requests of one World *)

\* C34: for one World, at most one frame request whose callback updates the
\* World is pending at any time, under any sequence of construction, frames,
\* pause(), stop() and resume() calls, resume() without a preceding pause()
\* and resume() called twice included; so that each Item is updated at most
\* once per host frame.
C34_OneFrameRequest == world.pending <= 1

\* the same for a World on which resume() was never called
OneFrameRequestUnresumed == ~seen.resumed => world.pending <= 1

----------------------------------------------------------------------------
(* Timeline.stop *)

\* every registered Item's state after the step is the state that its own
\* seek(t) gives
ItemsAt(t) ==
  \A i \in 1..Len(items) :
    items'[i].state = ItemSeek(items[i].animations, items[i].state, t).state

\* C35: after Timeline.stop(), currentTime is 0 and running is false, and
\* after the next frame every registered Item's state is its seek(0) state:
\* while the timeline is not running, the Items' states after a frame
\* correspond to the current value of currentTime.
C35_StopRewindsItems ==
  [][/\ TimelineStop => (timeline'.currentTime = 0 /\ ~timeline'.running)
     /\ (TimelineFrame /\ seen.op = "stop") =>
          (timeline'.currentTime = 0 /\ ItemsAt(0))
  ]_vars

\* what holds of stop(): currentTime is 0 and running is false, and the next
\* frame leaves currentTime at 0
StopResetsClock ==
  [][/\ TimelineStop => (timeline'.currentTime = 0 /\ ~timeline'.running)
     /\ (TimelineFrame /\ seen.op = "stop") => timeline'.currentTime = 0
  ]_vars

----------------------------------------------------------------------------
(* The 'start' and 'end' notifications of the queue units.  init emits
   'start' when it takes effect, end emits 'end' whenever it returns; the
   log of a call lists both, in order.  hist.open is the set of the units
   that have emitted 'start' and no 'end' since. *)

\* the open units after the notifications of log, from index k on
RECURSIVE Heard(_, _, _)
Heard(open, log, k) ==
  IF k > Len(log) THEN open
  ELSE IF log[k][1] = "init" THEN Heard(open \cup {log[k][2]}, log, k + 1)
  ELSE IF log[k][1] = "end" THEN Heard(open \ {log[k][2]}, log, k + 1)
  ELSE Heard(open, log, k + 1)

\* item.animation(now), the notifications remembered
TickHeard ==
  /\ Live
  /\ LET r == ItemAnimation(animations, state, running, infinite, now) IN
       IF r.hung
       THEN /\ hung' = TRUE
            /\ UNCHANGED <<state, animations, last, hist>>
       ELSE /\ state' = r.state
            /\ animations' = r.animations
            /\ last' = Called("animation", now, r)
            /\ hist' = [hist EXCEPT !.open = Heard(@, r.log, 1)]
            /\ hung' = FALSE
  /\ UNCHANGED <<infinite, running, now, built, origin, track, sched, calc>>

\* item.finish(abort), the notifications remembered
FinishHeard(abort) ==
  /\ Live
  /\ LET r == ItemFinish(animations, state, infinite, abort) IN
       /\ state' = r.state
       /\ animations' = r.animations
       /\ infinite' = r.infinite
       /\ last' = Called(IF abort THEN "stop" ELSE "finish", 0, r)
       /\ hist' = [hist EXCEPT !.open = Heard(@, r.log, 1)]
  /\ UNCHANGED <<running, now, built, hung, origin, track, sched, calc>>

NextHeard ==
  \/ Advance(MaxTick)
  \/ Animate
  \/ TickHeard
  \/ FinishHeard(FALSE)
  \/ FinishHeard(TRUE)
  \/ Pause
  \/ Resume

SpecHeard == Init /\ [][NextHeard]_vars

\* the notifications of log from index k on alternate for every single
\* Animation, given the units that are open: 'start' only from a unit that
\* is not open, 'end' only from a unit that is open
RECURSIVE Alternate(_, _, _)
Alternate(open, log, k) ==
  IF k > Len(log) THEN TRUE
  ELSE LET g == log[k][2]
           single == built[g].kind = "A"
       IN IF log[k][1] = "init"
          THEN (single => g \notin open)
                 /\ Alternate(open \cup {g}, log, k + 1)
          ELSE IF log[k][1] = "end"
          THEN (single => g \in open) /\ Alternate(open \ {g}, log, k + 1)
          ELSE Alternate(open, log, k + 1)

\* the 'start' notifications alone: none from a single Animation that is open
RECURSIVE StartsAlternate(_, _, _)
StartsAlternate(open, log, k) ==
  IF k > Len(log) THEN TRUE
  ELSE LET g == log[k][2]
       IN IF log[k][1] = "init"
          THEN (built[g].kind = "A" => g \notin open)
                 /\ StartsAlternate(open \cup {g}, log, k + 1)
          ELSE IF log[k][1] = "end"
          THEN StartsAlternate(open \ {g}, log, k + 1)
          ELSE StartsAlternate(open, log, k + 1)

\* the call of this step is one that notifies
Notifies == TickHeard \/ FinishHeard(FALSE) \/ FinishHeard(TRUE)

\* C36: for every Animation, under any sequence of animate, animation(tick),
\* pause, resume, finish and stop calls, its 'start' and 'end' notifications
\* alternate, beginning with 'start': no 'end' is emitted for a unit that
\* has not emitted 'start' since its previous 'end'.
C36_StartEndAlternate ==
  [][(Notifies /\ ~hung') => Alternate(hist.open, last'.log, 1)]_vars

\* the same for the 'start' notifications: no Animation emits 'start' twice
\* without an 'end' between
StartNotRepeated ==
  [][(Notifies /\ ~hung') => StartsAlternate(hist.open, last'.log, 1)]_vars

----------------------------------------------------------------------------
(* Draining the queue: a new running Item with a built queue, not infinite,
   handed animation(tick) with ticks that keep growing *)

DrainInputs == {MoveX, Late, Both}

\* the longest delay + duration of a unit of DrainInputs
LongestUnit ==
  LET ins == CHOOSE s \in [1..Cardinality(DrainInputs) -> DrainInputs] :
               \A x \in DrainInputs : \E k \in DOMAIN s : s[k] = x
  IN MaxOf([k \in DOMAIN ins |->
              ItemAnimate(1, ins[k]).delay + ItemAnimate(1, ins[k]).duration])

\* a tick that no queue of SpecDrain outlasts: the first unit is
\* initialised at DrainStep or before, every other unit less than DrainStep
\* after the unit before it was due, and each is due delay + duration later
DrainEnd == DrainStep + DrainQueue * (DrainStep + LongestUnit)

InitDrain ==
  /\ \E ins \in InputSeqs(DrainInputs, DrainQueue) : Built(ins, FALSE)
  /\ origin = 0
  /\ NoSched

\* the next frame of the host, some time after this one: item.animation(tick)
\* with a larger tick
DrainFrame ==
  \E d \in 1..DrainStep :
    /\ now + d <= DrainEnd
    /\ now' = now + d
    /\ Play(now + d, FALSE)

\* the host keeps calling: a frame that can be delivered is delivered
SpecDrain == InitDrain /\ [][DrainFrame]_vars /\ WF_vars(DrainFrame)

\* C37: for a running Item that is not infinite and whose units all have a
\* positive duration, when animation(tick) keeps being called with ticks
\* that grow, the queue eventually becomes empty, and it stays empty as long
\* as animate() is not called.
C37_QueueDrains == <>[](animations = <<>>)

\* a queue of DrainQueue units has been drained: the last call ended its
\* last unit
C37_Witness ==
  /\ animations = <<>>
  /\ Len(built) = DrainQueue
  /\ last.op = "animation" /\ ~last.err
  /\ Logged(last.log, "end", DrainQueue)

----------------------------------------------------------------------------
(* Vector.cross *)

\* Vector.cross(a, b), on vectors of whole numbers; a[0] is a[1] here
VectorCross(a, b) ==
  <<a[2] * b[3] - a[3] * b[2],
    a[3] * b[1] - a[1] * b[3],
    a[2] * b[2] - a[2] * b[1]>>

\* the components of the vectors handed to Vector.cross
CrossValues == {-1, 0, 2}

CrossVectors == [1..3 -> CrossValues]

InitCross ==
  /\ Built(<<>>, FALSE)
  /\ origin = 0
  /\ items = <<>>
  /\ world = NoWorld
  /\ timeline = NoTimeline
  /\ seen = NoSeen
  /\ heap = NoHeap
  /\ handlers = NoHandlers
  /\ \E a \in CrossVectors, b \in CrossVectors :
       calc = [op |-> "none", m |-> <<a, b>>, out |-> <<>>, err |-> FALSE]

\* Vector.cross(a, b) on the two vectors
Cross ==
  /\ calc.op = "none"
  /\ calc' = [calc EXCEPT !.op = "cross",
                          !.out = VectorCross(calc.m[1], calc.m[2])]
  /\ UNCHANGED <<state, animations, infinite, running, now, built, last, hist,
                 hung, origin, track, sched>>

SpecCross == InitCross /\ [][Cross]_vars

Dot(a, b) == a[1] * b[1] + a[2] * b[2] + a[3] * b[3]

\* C38: Vector.cross(a, b) is the cross product (a1*b2 - a2*b1,
\* a2*b0 - a0*b2, a0*b1 - a1*b0) for all 3-component vectors a and b; its
\* result is orthogonal to both a and b.
C38_CrossIsCrossProduct ==
  calc.op = "cross" =>
    LET a == calc.m[1]
        b == calc.m[2]
    IN /\ calc.out = <<a[2] * b[3] - a[3] * b[2],
                       a[3] * b[1] - a[1] * b[3],
                       a[1] * b[2] - a[2] * b[1]>>
       /\ Dot(calc.out, a) = 0
       /\ Dot(calc.out, b) = 0

\* the first two components are those of the cross product
CrossFirstTwoComponents ==
  calc.op = "cross" =>
    LET a == calc.m[1]
        b == calc.m[2]
    IN /\ calc.out[1] = a[2] * b[3] - a[3] * b[2]
       /\ calc.out[2] = a[3] * b[1] - a[1] * b[3]

----------------------------------------------------------------------------
(* EventEmitter: one emitter, its listeners added, removed and called *)

\* the functions that are handed to on and off
Callbacks == {1, 2}

\* Array.prototype.indexOf: the index of the first h in s, counted from 0,
\* or -1
IndexOf(s, h) ==
  IF \E k \in 1..Len(s) : s[k] = h
  THEN (CHOOSE k \in 1..Len(s) :
          s[k] = h /\ \A j \in 1..(k - 1) : s[j] # h) - 1
  ELSE -1

\* Array.prototype.splice(start, 1): a negative start counts from the end
Splice(s, start) ==
  LET from == IF start < 0
              THEN (IF Len(s) + start < 0 THEN 0 ELSE Len(s) + start)
              ELSE Min(start, Len(s))
  IN IF from >= Len(s) THEN s
     ELSE [k \in 1..(Len(s) - 1) |-> IF k <= from THEN s[k] ELSE s[k + 1]]

\* EventEmitter.prototype.on(event, handler): the handlers it leaves
EmitterOn(hs, e, c) ==
  [hs EXCEPT ![e] = Some(Append(IF @ = Null THEN <<>> ELSE @[1], c))]

\* EventEmitter.prototype.off(event, handler), handler = Null when it is
\* left out: the handlers it leaves; handlers.splice throws a TypeError when
\* the event has no list
EmitterOff(hs, e, h) ==
  IF h # Null
  THEN IF hs[e] = Null THEN [handlers |-> hs, err |-> TRUE]
       ELSE [handlers |->
               [hs EXCEPT ![e] = Some(Splice(@[1], IndexOf(@[1], h[1])))],
             err |-> FALSE]
  ELSE [handlers |-> hs, err |-> FALSE]

\* EventEmitter.prototype.emit(event): the listeners it calls, in order
EmitterEmit(hs, e) == IF hs[e] = Null THEN <<>> ELSE hs[e][1]

EmitterRest ==
  UNCHANGED <<state, animations, infinite, running, now, built, hist, hung,
              origin, track, items, world, timeline, seen, heap, calc>>

\* emitter.on(e, c)
OnWith(e, c) ==
  /\ Live
  /\ Len(EmitterEmit(handlers, e)) < MaxListeners
  /\ handlers' = EmitterOn(handlers, e, c)
  /\ last' = Called("on", <<e, Some(c)>>, [log |-> <<>>, err |-> FALSE])
  /\ EmitterRest

\* emitter.off(e, h), and emitter.off(e) when h = Null
OffWith(e, h) ==
  /\ Live
  /\ LET r == EmitterOff(handlers, e, h) IN
       /\ handlers' = r.handlers
       /\ last' = Called("off", <<e, h>>, [log |-> <<>>, err |-> r.err])
  /\ EmitterRest

\* emitter.emit(e): the log of the call lists the listeners called
EmitOn(e) ==
  /\ Live
  /\ last' = Called("emit", <<e, Null>>,
                    [log |-> EmitterEmit(handlers, e), err |-> FALSE])
  /\ UNCHANGED handlers
  /\ EmitterRest

On == \E e \in Events, c \in Callbacks : OnWith(e, c)

Off == \E e \in Events, h \in {Null} \cup {Some(c) : c \in Callbacks} :
         OffWith(e, h)

Emit == \E e \in Events : EmitOn(e)

NextEmitter == On \/ Off \/ Emit

SpecEmitter == Init /\ [][NextEmitter]_vars

\* s with its first c left out, s itself when c is not in s
Without(s, c) ==
  IF IndexOf(s, c) < 0 THEN s
  ELSE [k \in 1..(Len(s) - 1) |-> IF k <= IndexOf(s, c) THEN s[k] ELSE s[k + 1]]

\* the listeners of every event but e are left as they are
OthersKept(e) == \A f \in Events \ {e} : handlers'[f] = handlers[f]

\* C39: off(event, handler) removes the given handler and nothing else: the
\* list of the event is unchanged when the handler is not registered for
\* it; off(event) without a handler removes every listener of the event, so
\* that a later emit(event) calls none of them.
C39_OffRemovesExactly ==
  [][\A e \in Events :
       /\ \A c \in Callbacks :
            OffWith(e, Some(c)) =>
              /\ ~last'.err
              /\ EmitterEmit(handlers', e)
                   = Without(EmitterEmit(handlers, e), c)
              /\ OthersKept(e)
       /\ OffWith(e, Null) =>
            (EmitterEmit(handlers', e) = <<>> /\ OthersKept(e))
       /\ (EmitOn(e) /\ last.op = "off" /\ last.arg = <<e, Null>>) =>
            last'.log = <<>>
  ]_vars

\* the same for off(event, handler) with a handler that is registered for
\* the event
OffRemovesRegistered ==
  [][\A e \in Events : \A c \in Callbacks :
       (OffWith(e, Some(c)) /\ IndexOf(EmitterEmit(handlers, e), c) >= 0) =>
         /\ ~last'.err
         /\ EmitterEmit(handlers', e) = Without(EmitterEmit(handlers, e), c)
         /\ OthersKept(e)
  ]_vars

====
